---- MODULE Spec2Model ----
(***************************************************************************)
(* Link shortener, click counter and privacy-conscious visitor ledger of   *)
(* the portfolio site (main.go, admin.go).                                 *)
(*                                                                         *)
(*   Spec        the SQLite-backed Link Store: startup, POST /shorten-url, *)
(*               GET /s/:code with its detached click increment, the admin *)
(*               DELETE, process restart.                                  *)
(*   SpecMem     the in-memory variant of the store (URLStore + RWMutex).  *)
(*   SpecLedger  the visitors table: startup schema reconciliation of the  *)
(*               two versions of admin.go and trackVisitorPrivacy.         *)
(*   SpecLedgerFault  the same startup when a statement of it fails.       *)
(*   SpecRetention    the serving ledger over the months: retention.       *)
(*   SpecTrack   requests through visitorTrackingMiddleware.               *)
(*   SpecStats   getAdminStats, one step per query.                        *)
(*   SpecServe   the serving Link Store with failing SELECT and UPDATE and *)
(*               the admin DELETE with its response.                       *)
(*   SpecShorten POST /shorten-url over every submitted body.              *)
(*   SpecSite    the whole serving site: links, visitors, retention and    *)
(*               the dashboard behind the admin gate.                      *)
(*   SpecRecent  the visitor listings as days pass and visits come in.     *)
(*   SpecBoot    the process from startup on, every statement able to fail.*)
(*   SpecGen     generateShortCode over sample random bytes.               *)
(*   SpecGate    login, logout, the protected admin group, restarts.       *)
(***************************************************************************)
EXTENDS Integers, Sequences, FiniteSets, TLC

VARIABLES
    \* ---- Link Store (urls table, main.go) ----
    proc,        \* position of the serving process: "down", "dbReady", "serving"
    urlsTable,   \* TRUE when table urls exists
    clicksCol,   \* TRUE when column urls.clicks exists
    urls,        \* short_code -> row of table urls, or NoRow
    clock,       \* CURRENT_TIMESTAMP
    incTasks,    \* short_code -> number of detached increment goroutines not yet run
    lastLookup,  \* what the last getURL returned (saved: history, the URL then on record)
    lastShorten, \* outcome of the last POST /shorten-url
    submitted,   \* history: short_code -> URL handed to the saveURL that created the row
    hits,        \* history: short_code -> lookups that found the row
    dropped,     \* history: short_code -> increments that can no longer reach the row
    \* ---- in-memory variant (URLStore, main.go) ----
    memUrls,     \* urlStore.urls : short_code -> URL, or NoRow
    mu,          \* urlStore.mu : [writer |-> request or None, readers |-> set of requests]
    memReq,      \* request -> position and locals of its handler
    \* ---- Visitor Ledger (visitors table, admin.go) ----
    build,       \* which version of admin.go is deployed: "A" (lines 1-596), "B" (598-1150)
    lpc,         \* position of the process in startup / serving
    vis,         \* table visitors
    old,         \* table visitors_old
    salt,        \* hashingSalt
    trackTasks,  \* detached trackVisitorPrivacy goroutines not yet run (their arguments)
    startKind,   \* history: schema of visitors when the process started
    startRows,   \* history: rows of visitors when the process started
    twin,        \* history: columns value a second run of the copy statement assigns
    \* ---- requests and the admin surface (admin.go) ----
    lastPage,    \* the last request through visitorTrackingMiddleware and its response
    optOut,      \* history: addresses that have sent a request with DNT: 1
    cleanTasks,  \* detached cleanupOldVisitorData goroutines not yet run
    lastDelete,  \* outcome of the last DELETE /admin/urls/:code
    lastStats,   \* outcome of the last getAdminStats
    \* ---- the admin gate and the short-code generator ----
    adminToken,  \* the package variable adminToken
    jar,         \* browser -> value of its admin_token cookie, or NoCookie
    issued,      \* history: token values this process has handed out at a login
    lastAdmin,   \* the last request to a route under /admin and its response
    lastGen      \* the last generateShortCode: bytes drawn and what it returned

linkVars   == <<proc, urlsTable, clicksCol, urls, clock, incTasks, lastLookup,
                lastShorten, submitted, hits, dropped>>
memVars    == <<memUrls, mu, memReq>>
ledgerVars == <<build, lpc, vis, old, salt, trackTasks, startKind, startRows, twin>>
adminVars  == <<lastPage, optOut, cleanTasks, lastDelete, lastStats>>
siteVars   == <<adminToken, jar, issued, lastAdmin, lastGen>>
vars       == <<linkVars, memVars, ledgerVars, adminVars, siteVars>>

----------------------------------------------------------------------------
(* Bounds *)
MaxClock   == 1      \* values of CURRENT_TIMESTAMP
MaxLookups == 2      \* lookups that hit, over all short codes
MaxRows    == 2      \* rows a pre-existing visitors table holds
MaxInserts == 2      \* visitor rows recorded per model run
RandMod    == 2      \* stands for the 1000000000 of abs(random()) % 1000000000
MaxMonths  == 14     \* months the retention model lets pass
MaxCleanTasks == 1   \* cleanup goroutines pending at a time

\* datetime('now', '-12 months')
RetentionMonths == 12
\* datetime('now', '-7 days')
WeekDays == 7
\* LIMIT 10 of the top URLs, LIMIT 50 of the recent visitors
TopLimit == 10
RecentLimit == 50
\* LIMIT 200 of GET /admin/visitors
ListLimit == 200
\* the cookie's max age: 3600*24 seconds
CookieMaxAge == 86400

Codes   == {"abc123", "zzz999"}
None    == "none"
NoRow   == [absent |-> TRUE]
NoResult == [pending |-> TRUE]

----------------------------------------------------------------------------
(* Submitted form values: leading/trailing blanks and a body *)
Bodies == {"", "http://a", "https://b", "ftp://c", "a.com", "http://[bad"}
Posted == {<<pad, b>> : pad \in BOOLEAN, b \in Bodies}

\* strings.TrimSpace: the padding goes, the body stays (main.go:401)
TrimSpace(p) == p[2]

\* url.Parse(originalURL): err, Scheme (main.go:412)
ParseErr(u) == u = "http://[bad"
Scheme(u) ==
    CASE u = "http://a"    -> "http"
      [] u = "https://b"   -> "https"
      [] u = "ftp://c"     -> "ftp"
      [] u = "http://[bad" -> "http"
      [] OTHER             -> ""

\* (variant that checks the parse only, not the scheme)
ValidationErrorAnyScheme(u) ==
    IF u = "" THEN "empty" ELSE IF ParseErr(u) THEN "invalid" ELSE None
\* main.go:404 and main.go:413
ValidationError(u) ==
    IF u = "" THEN "empty"
    ELSE IF ParseErr(u) \/ (Scheme(u) # "http" /\ Scheme(u) # "https") THEN "invalid"
    ELSE None

ValidURLs == {u \in Bodies : ValidationError(u) = None}

----------------------------------------------------------------------------
(* Table urls *)
Exists(c) == urls[c] # NoRow

\* INSERT INTO urls (short_code, original_url): created_at DEFAULT CURRENT_TIMESTAMP,
\* clicks DEFAULT 0 (main.go:594, admin.go:177)
\* (variant with the two bound arguments of the INSERT exchanged)
NewRowSwapped(c, u, t) == [original_url |-> c, created_at |-> t, clicks |-> 0]
NewRow(c, u, t) == [original_url |-> u, created_at |-> t, clicks |-> 0]

\* saveURL: PRIMARY KEY short_code makes the INSERT of a stored code fail
InsertURL(tbl, c, u, t) ==
    IF tbl[c] # NoRow
    THEN [ok |-> FALSE, tbl |-> tbl]
    ELSE [ok |-> TRUE, tbl |-> [tbl EXCEPT ![c] = NewRow(c, u, t)]]

\* SELECT original_url FROM urls WHERE short_code = ?
SelectURL(tbl, c) ==
    IF tbl[c] # NoRow
    THEN [url |-> tbl[c].original_url, found |-> TRUE]
    ELSE [url |-> "", found |-> FALSE]

\* UPDATE urls SET clicks = COALESCE(clicks, 0) + 1 WHERE short_code = ?
\* one SQL statement: the read and the write are one step of the storage engine
\* (variant that writes back the value it read)
ClicksAfterLost(n) == n
ClicksAfterUpdate(n) == n + 1

\* (variant that re-initialises the column at every startup)
ClicksAfterReset(n) == 0
\* ALTER TABLE urls ADD COLUMN clicks INTEGER DEFAULT 0: fails, and is ignored,
\* when the column exists; otherwise every stored row reads 0
ClicksAfterAlter(n) == IF clicksCol THEN n ELSE 0

----------------------------------------------------------------------------
(* Startup of the Link Store part of main() *)

\* initDB: CREATE TABLE IF NOT EXISTS urls (short_code, original_url, created_at)
InitDB ==
    /\ proc = "down"
    /\ proc' = "dbReady"
    /\ urlsTable' = TRUE
    /\ UNCHANGED <<clicksCol, urls, clock, incTasks, lastLookup, lastShorten,
                   submitted, hits, dropped>>
    /\ UNCHANGED <<memVars, siteVars, ledgerVars, adminVars>>

\* initVisitorTracking, the part on table urls (ADD COLUMN clicks), then r.Run
AddClicksColumn ==
    /\ proc = "dbReady"
    /\ proc' = "serving"
    /\ clicksCol' = TRUE
    /\ urls' = [c \in Codes |->
                  IF urls[c] = NoRow THEN NoRow
                  ELSE [urls[c] EXCEPT !.clicks = ClicksAfterAlter(urls[c].clicks)]]
    /\ UNCHANGED <<urlsTable, clock, incTasks, lastLookup, lastShorten,
                   submitted, hits, dropped>>
    /\ UNCHANGED <<memVars, siteVars, ledgerVars, adminVars>>

\* the process stops; its goroutines die with it, the database file stays
Restart ==
    /\ proc = "serving"
    /\ proc' = "down"
    /\ incTasks' = [c \in Codes |-> 0]
    /\ dropped' = [c \in Codes |-> dropped[c] + incTasks[c]]
    /\ UNCHANGED <<urlsTable, clicksCol, urls, clock, lastLookup, lastShorten,
                   submitted, hits>>
    /\ UNCHANGED <<memVars, siteVars, ledgerVars, adminVars>>

\* time passes
Tick ==
    /\ clock < MaxClock
    /\ clock' = clock + 1
    /\ UNCHANGED <<proc, urlsTable, clicksCol, urls, incTasks, lastLookup,
                   lastShorten, submitted, hits, dropped>>
    /\ UNCHANGED <<memVars, siteVars, ledgerVars, adminVars>>

----------------------------------------------------------------------------
(* POST /shorten-url (main.go:400-457) *)

\* rejected before any short code is generated
ShortenRejected(p) ==
    /\ proc = "serving"
    /\ ValidationError(TrimSpace(p)) # None
    /\ lastShorten' = [status |-> ValidationError(TrimSpace(p)), code |-> None,
                       url |-> TrimSpace(p), attempts |-> 0]
    /\ UNCHANGED <<proc, urlsTable, clicksCol, urls, clock, incTasks, lastLookup,
                   submitted, hits, dropped>>
    /\ UNCHANGED <<memVars, siteVars, ledgerVars, adminVars>>

\* generateShortCode fails: rand.Read returned an error
ShortenNoEntropy(p) ==
    /\ proc = "serving"
    /\ ValidationError(TrimSpace(p)) = None
    /\ lastShorten' = [status |-> "gen_error", code |-> None,
                       url |-> TrimSpace(p), attempts |-> 0]
    /\ UNCHANGED <<proc, urlsTable, clicksCol, urls, clock, incTasks, lastLookup,
                   submitted, hits, dropped>>
    /\ UNCHANGED <<memVars, siteVars, ledgerVars, adminVars>>

\* one generateShortCode, one saveURL; an INSERT error is answered with the
\* "error saving the short URL" fragment, nothing is regenerated
Shorten(p, code) ==
    /\ proc = "serving"
    /\ ValidationError(TrimSpace(p)) = None
    /\ LET u == TrimSpace(p)
           r == InsertURL(urls, code, u, clock)
       IN  /\ urls' = r.tbl
           /\ lastShorten' = [status |-> IF r.ok THEN "ok" ELSE "save_error",
                              code |-> code, url |-> u, attempts |-> 1]
           /\ submitted' = IF r.ok THEN [submitted EXCEPT ![code] = u] ELSE submitted
    /\ UNCHANGED <<proc, urlsTable, clicksCol, clock, incTasks, lastLookup,
                   hits, dropped>>
    /\ UNCHANGED <<memVars, siteVars, ledgerVars, adminVars>>

----------------------------------------------------------------------------
(* GET /s/:code (main.go:460-473) and getURL (main.go:612-632) *)

RECURSIVE SumOver(_, _)
SumOver(f, S) ==
    IF S = {} THEN 0
    ELSE LET x == CHOOSE y \in S : TRUE IN f[x] + SumOver(f, S \ {x})
TotalHits == SumOver(hits, Codes)

\* (variant that redirects whatever getURL returned)
RedirectStatusAlways(found) == 302
\* the handler: 404 with the not-found page, or c.Redirect(http.StatusFound, ...)
RedirectStatus(found) == IF found THEN 302 ELSE 404

Lookup(code) ==
    /\ proc = "serving"
    /\ LET r == SelectURL(urls, code)
       IN  /\ lastLookup' = [code |-> code, url |-> r.url, found |-> r.found,
                             status |-> RedirectStatus(r.found),
                             saved |-> submitted[code]]
           /\ r.found => TotalHits < MaxLookups
           /\ incTasks' = IF r.found THEN [incTasks EXCEPT ![code] = @ + 1]
                          ELSE incTasks
           /\ hits' = IF r.found THEN [hits EXCEPT ![code] = @ + 1] ELSE hits
    /\ UNCHANGED <<proc, urlsTable, clicksCol, urls, clock, lastShorten,
                   submitted, dropped>>
    /\ UNCHANGED <<memVars, siteVars, ledgerVars, adminVars>>

\* (variant without the WHERE clause)
UpdateClicksAllRows(tbl, c) ==
    [d \in DOMAIN tbl |->
        IF tbl[d] = NoRow THEN NoRow
        ELSE [tbl[d] EXCEPT !.clicks = ClicksAfterUpdate(@)]]
\* UPDATE urls SET clicks = ... WHERE short_code = ?, on a stored code
UpdateClicks(tbl, c) == [tbl EXCEPT ![c].clicks = ClicksAfterUpdate(@)]

\* (variant that writes the row when there is none, as an upsert would)
UpdateClicksUpsert(tbl, c) == [tbl EXCEPT ![c] = NewRow(c, "", 1)]
\* the same UPDATE when no row has the code: the WHERE clause matches nothing
UpdateClicksNoRow(tbl, c) == tbl

\* the goroutine started by getURL runs its UPDATE
IncrementClicks(code) ==
    /\ proc = "serving"
    /\ incTasks[code] > 0
    /\ incTasks' = [incTasks EXCEPT ![code] = @ - 1]
    /\ IF Exists(code)
       THEN /\ urls' = UpdateClicks(urls, code)
            /\ UNCHANGED dropped
       ELSE /\ urls' = UpdateClicksNoRow(urls, code)
            /\ dropped' = [dropped EXCEPT ![code] = @ + 1]
    /\ UNCHANGED <<proc, urlsTable, clicksCol, clock, lastLookup, lastShorten,
                   submitted, hits>>
    /\ UNCHANGED <<memVars, siteVars, ledgerVars, adminVars>>

\* getURL's SELECT returns an error other than "no rows": the handler gets
\* ("", false) and no goroutine is started
LookupFails(code) ==
    /\ proc = "serving"
    /\ lastLookup' = [code |-> code, url |-> "", found |-> FALSE,
                      status |-> RedirectStatus(FALSE), saved |-> submitted[code]]
    /\ UNCHANGED <<proc, urlsTable, clicksCol, urls, clock, incTasks, lastShorten,
                   submitted, hits, dropped>>
    /\ UNCHANGED <<memVars, siteVars, ledgerVars, adminVars>>

\* the goroutine's UPDATE returns an error: "Error updating click count" is
\* logged
IncrementClicksFails(code) ==
    /\ proc = "serving"
    /\ incTasks[code] > 0
    /\ incTasks' = [incTasks EXCEPT ![code] = @ - 1]
    /\ dropped' = [dropped EXCEPT ![code] = @ + 1]
    /\ UNCHANGED <<proc, urlsTable, clicksCol, urls, clock, lastLookup, lastShorten,
                   submitted, hits>>
    /\ UNCHANGED <<memVars, siteVars, ledgerVars, adminVars>>

----------------------------------------------------------------------------
(* DELETE /admin/urls/:code (admin.go:552-571) *)
DeleteURL(code) ==
    /\ proc = "serving"
    /\ Exists(code)
    /\ urls' = [urls EXCEPT ![code] = NoRow]
    /\ submitted' = [submitted EXCEPT ![code] = None]
    /\ dropped' = [dropped EXCEPT ![code] = @ + urls[code].clicks]
    /\ UNCHANGED <<proc, urlsTable, clicksCol, clock, incTasks, lastLookup,
                   lastShorten, hits>>
    /\ UNCHANGED <<memVars, siteVars, ledgerVars, adminVars>>

\* (variant without the WHERE clause)
DeleteAllRows(tbl, c) ==
    [rows |-> Cardinality({d \in DOMAIN tbl : tbl[d] # NoRow}),
     tbl |-> [d \in DOMAIN tbl |-> NoRow]]
\* DELETE FROM urls WHERE short_code = ? and its RowsAffected
DeleteRow(tbl, c) ==
    [rows |-> IF tbl[c] # NoRow THEN 1 ELSE 0, tbl |-> [tbl EXCEPT ![c] = NoRow]]

\* rowsAffected == 0: 404 "URL not found"; otherwise 200
DeleteStatus(rows) == IF rows = 0 THEN 404 ELSE 200

\* the handler with its response (history: stored, whether the code was
\* stored when the request came; inflight, the click goroutines of the code
\* that had not run their UPDATE yet)
AdminDeleteURL(code) ==
    /\ proc = "serving"
    /\ LET r == DeleteRow(urls, code)
       IN  /\ urls' = r.tbl
           /\ lastDelete' = [code |-> code, rows |-> r.rows,
                             status |-> DeleteStatus(r.rows), stored |-> Exists(code),
                             inflight |-> incTasks[code]]
    /\ submitted' = [c \in Codes |-> IF urls'[c] = NoRow THEN None ELSE submitted[c]]
    /\ dropped' = [c \in Codes |->
                     IF urls[c] # NoRow /\ urls'[c] = NoRow
                     THEN dropped[c] + urls[c].clicks ELSE dropped[c]]
    /\ UNCHANGED <<proc, urlsTable, clicksCol, clock, incTasks, lastLookup,
                   lastShorten, hits>>
    /\ UNCHANGED <<lastPage, optOut, cleanTasks, lastStats>>
    /\ UNCHANGED <<memVars, siteVars, ledgerVars>>

----------------------------------------------------------------------------
(* The in-memory variant: URLStore and setupURLShortenerRoutes (main.go:143-220). *)
(* Each request runs its handler in its own goroutine, one statement a step.  *)

Reqs == {"r1", "r2"}
MemIdle == [pc |-> "idle", code |-> None, url |-> None, found |-> FALSE,
            resp |-> None]

\* urlStore.urls[shortCode] = originalURL
MemPut(m, c, u) == [m EXCEPT ![c] = u]

\* originalURL, exists := urlStore.urls[shortCode]
MemGet(m, c) == [url |-> IF m[c] = None THEN "" ELSE m[c], found |-> m[c] # None]

MemShortenRejected(r, p) ==
    /\ memReq[r].pc = "idle"
    /\ ValidationError(TrimSpace(p)) # None
    /\ memReq' = [memReq EXCEPT ![r] =
                     [MemIdle EXCEPT !.resp = ValidationError(TrimSpace(p))]]
    /\ UNCHANGED <<memUrls, mu>>
    /\ UNCHANGED <<linkVars, ledgerVars, adminVars, siteVars>>

MemShortenNoEntropy(r, p) ==
    /\ memReq[r].pc = "idle"
    /\ ValidationError(TrimSpace(p)) = None
    /\ memReq' = [memReq EXCEPT ![r] = [MemIdle EXCEPT !.resp = "gen_error"]]
    /\ UNCHANGED <<memUrls, mu>>
    /\ UNCHANGED <<linkVars, ledgerVars, adminVars, siteVars>>

\* validation passed and generateShortCode returned code
MemShortenBegin(r, p, code) ==
    /\ memReq[r].pc = "idle"
    /\ ValidationError(TrimSpace(p)) = None
    /\ memReq' = [memReq EXCEPT ![r] =
                     [MemIdle EXCEPT !.pc = "lock", !.code = code,
                                     !.url = TrimSpace(p)]]
    /\ UNCHANGED <<memUrls, mu>>
    /\ UNCHANGED <<linkVars, ledgerVars, adminVars, siteVars>>

\* sync.RWMutex: Lock returns when nobody holds the lock
CanLock(m) == m.writer = None /\ m.readers = {}

\* (variant: a lock that lets readers in while a writer holds it)
CanRLockAlways(m) == TRUE
\* sync.RWMutex: RLock returns when no writer holds the lock
CanRLock(m) == m.writer = None

\* urlStore.mu.Lock()
MemLock(r) ==
    /\ memReq[r].pc = "lock"
    /\ CanLock(mu)
    /\ mu' = [mu EXCEPT !.writer = r]
    /\ memReq' = [memReq EXCEPT ![r].pc = "store"]
    /\ UNCHANGED memUrls
    /\ UNCHANGED <<linkVars, ledgerVars, adminVars, siteVars>>

MemStore(r) ==
    /\ memReq[r].pc = "store"
    /\ memUrls' = MemPut(memUrls, memReq[r].code, memReq[r].url)
    /\ memReq' = [memReq EXCEPT ![r].pc = "unlock"]
    /\ UNCHANGED mu
    /\ UNCHANGED <<linkVars, ledgerVars, adminVars, siteVars>>

\* urlStore.mu.Unlock(), then the success fragment
MemUnlock(r) ==
    /\ memReq[r].pc = "unlock"
    /\ mu' = [mu EXCEPT !.writer = None]
    /\ memReq' = [memReq EXCEPT ![r].pc = "idle", ![r].resp = "ok"]
    /\ UNCHANGED memUrls
    /\ UNCHANGED <<linkVars, ledgerVars, adminVars, siteVars>>

\* GET /s/:code
MemRedirectBegin(r, code) ==
    /\ memReq[r].pc = "idle"
    /\ memReq' = [memReq EXCEPT ![r] = [MemIdle EXCEPT !.pc = "rlock", !.code = code]]
    /\ UNCHANGED <<memUrls, mu>>
    /\ UNCHANGED <<linkVars, ledgerVars, adminVars, siteVars>>

\* urlStore.mu.RLock()
MemRLock(r) ==
    /\ memReq[r].pc = "rlock"
    /\ CanRLock(mu)
    /\ mu' = [mu EXCEPT !.readers = @ \cup {r}]
    /\ memReq' = [memReq EXCEPT ![r].pc = "read"]
    /\ UNCHANGED memUrls
    /\ UNCHANGED <<linkVars, ledgerVars, adminVars, siteVars>>

MemRead(r) ==
    /\ memReq[r].pc = "read"
    /\ LET g == MemGet(memUrls, memReq[r].code)
       IN  memReq' = [memReq EXCEPT ![r].pc = "runlock", ![r].url = g.url,
                                    ![r].found = g.found]
    /\ UNCHANGED <<memUrls, mu>>
    /\ UNCHANGED <<linkVars, ledgerVars, adminVars, siteVars>>

\* urlStore.mu.RUnlock(), then 404 or the redirect
MemRUnlock(r) ==
    /\ memReq[r].pc = "runlock"
    /\ mu' = [mu EXCEPT !.readers = @ \ {r}]
    /\ memReq' = [memReq EXCEPT ![r].pc = "idle",
                                 ![r].resp = IF memReq[r].found THEN "302" ELSE "404"]
    /\ UNCHANGED memUrls
    /\ UNCHANGED <<linkVars, ledgerVars, adminVars, siteVars>>

----------------------------------------------------------------------------
(* Visitor Ledger: tables visitors and visitors_old (admin.go) *)

Addrs == {"10.0.0.1", "10.0.0.2"}
Salts == {"s1", "s2"}

\* values of generateAdminToken as the admin token; browsers; their cookie
\* admin_token, NoCookie when the browser holds none
Tokens   == {"t1", "t2"}
Browsers == {"b1", "b2"}
NoCookie == "no cookie"

\* column values: SQL NULL, the empty text, a raw client address, the value of
\* hashIP, and the text printf('%016x', n)
NULLV       == <<"null">>
EmptyText   == <<"text", "">>
RawAddr(a)  == <<"raw", a>>
Hex16(n)    == <<"ph", n>>

\* (variant that stores the address it was given)
hashIPRaw(ip) == RawAddr(ip)
\* hashIP: hex(sha256(ip + hashingSalt))[:16], a value that is not the address
\* and is fixed by the address and the salt
hashIP(ip) == <<"sha", ip, salt>>

\* history tag of a row: who wrote it
ByLegacy   == <<"legacy">>
ByMigrate  == <<"migrated">>
ByRecord(a, s, via) == <<"record", a, s, via>>

\* c.Request.URL.Path, cut into the pieces the middleware's prefixes end at
HomePath == <<"/">>
Paths ==
    { HomePath,
      <<"/", "nowhere">>,
      <<"/", "static", "/", "site.css">>,
      <<"/", "images", "/", "me.png">>,
      <<"/", "favicon", ".ico">>,
      <<"/", "admin", "/", "dashboard">>,
      <<"/", "admin">>,
      <<"/", "privacy">> }

\* c.GetHeader("DNT"): "" when the request has no such header
NoHeader == ""
Headers  == {NoHeader, "0", "1"}

\* a row of visitors: the columns id, ip, hashed_ip, path and timestamp; by
\* (history) tells what wrote the row and dnt (history) the DNT header of the
\* request it stands for
VRow(id, ipv, hv, by) ==
    [id |-> id, ip |-> ipv, hashed_ip |-> hv, by |-> by,
     path |-> HomePath, timestamp |-> 0, dnt |-> NoHeader]

\* the same row with the path and timestamp an INSERT or a copy gives it
Stamp(r, path, t, dnt) == [r EXCEPT !.path = path, !.timestamp = t, !.dnt = dnt]

\* no such table
NoTable == [exists |-> FALSE, cols |-> {}, notnull |-> {}, rows |-> {}, seq |-> 0]

\* CREATE TABLE visitors (id ..., hashed_ip TEXT NOT NULL, ...)
CreateNewVisitorTable ==
    [exists |-> TRUE, cols |-> {"hashed_ip"}, notnull |-> {"hashed_ip"},
     rows |-> {}, seq |-> 0]

\* the table of the first version of the admin module: ip TEXT NOT NULL
LegacyTable(rows) ==
    [exists |-> TRUE, cols |-> {"ip"}, notnull |-> {"ip"}, rows |-> rows,
     seq |-> Cardinality(rows)]

SchemaKind(t) ==
    IF ~t.exists THEN "none"
    ELSE IF t.cols = {"ip"} THEN "legacy"
    ELSE IF t.cols = {"hashed_ip"} THEN "hashed"
    ELSE "both"

\* an INSERT naming the columns in given succeeds when the table has them and
\* every NOT NULL column without a default is among them
CanInsert(t, given) == t.exists /\ given \subseteq t.cols /\ t.notnull \subseteq given

\* id INTEGER PRIMARY KEY AUTOINCREMENT
InsertRow(t, ipv, hv, by, task, now) ==
    [t EXCEPT !.rows = @ \cup {Stamp(VRow(t.seq + 1, ipv, hv, by),
                                      task.path, now, task.dnt)},
              !.seq = @ + 1]

\* (variant whose schema probe comes back empty, as it does when the query fails)
NeedsMigrationAlways(t) == TRUE
\* SELECT COUNT(*) > 0 FROM pragma_table_info('visitors') WHERE name='hashed_ip'
NeedsMigration(t) == "hashed_ip" \notin t.cols

\* hashed_ip IS NULL OR hashed_ip = ''
Unset(v) == v = NULLV \/ v = EmptyText

\* printf('%016x', id * 12345)
IdPlaceholder(id) == Hex16(id * 12345)

\* position of a row in the scan of the old table
Rank(rows, r) == Cardinality({q \in rows : q.id <= r.id})

\* INSERT INTO visitors (hashed_ip, ...) SELECT printf('%016x', abs(random())
\* % 1000000000), ... FROM visitors_old; rnd[id] is the draw for the row id
CopyWithPlaceholder(rows, rnd) ==
    {Stamp(VRow(Rank(rows, r), NULLV, Hex16(rnd[r.id]), ByMigrate),
           r.path, r.timestamp, r.dnt) : r \in rows}

Draws(rows) == [{r.id : r \in rows} -> 0 .. (RandMod - 1)]

\* UPDATE visitors SET hashed_ip = printf('%016x', id * 12345)
\*  WHERE hashed_ip IS NULL OR hashed_ip = ''
FillPlaceholders(rows) ==
    {IF Unset(r.hashed_ip) THEN [r EXCEPT !.hashed_ip = IdPlaceholder(r.id)] ELSE r
       : r \in rows}

HashedOf(rows) == {<<r.id, r.hashed_ip>> : r \in rows}

\* ---- the process ----

StartProcess ==
    /\ lpc = "down"
    /\ lpc' = IF build = "A" THEN "A_check" ELSE "B_create"
    /\ startKind' = SchemaKind(vis)
    /\ startRows' = vis.rows
    /\ twin' = {}
    /\ UNCHANGED <<build, vis, old, salt, trackTasks>>
    /\ UNCHANGED <<linkVars, memVars, siteVars, adminVars>>

\* ---- version A: initVisitorTracking (admin.go:140-184) ----

A_CheckTable ==
    /\ lpc = "A_check"
    /\ IF ~vis.exists
       THEN vis' = CreateNewVisitorTable /\ lpc' = "ready"
       ELSE /\ UNCHANGED vis
            /\ lpc' = IF NeedsMigration(vis) THEN "A_rename" ELSE "ready"
    /\ UNCHANGED <<build, old, salt, trackTasks, startKind, startRows, twin>>
    /\ UNCHANGED <<linkVars, memVars, siteVars, adminVars>>

\* migrateVisitorTable step 1: ALTER TABLE visitors RENAME TO visitors_old;
\* on an error the function returns
A_Rename ==
    /\ lpc = "A_rename"
    /\ IF old.exists
       THEN UNCHANGED <<vis, old>> /\ lpc' = "ready"
       ELSE old' = vis /\ vis' = NoTable /\ lpc' = "A_create"
    /\ UNCHANGED <<build, salt, trackTasks, startKind, startRows, twin>>
    /\ UNCHANGED <<linkVars, memVars, siteVars, adminVars>>

\* step 2: createNewVisitorTable
A_Create ==
    /\ lpc = "A_create"
    /\ vis' = CreateNewVisitorTable
    /\ lpc' = "A_copy"
    /\ UNCHANGED <<build, old, salt, trackTasks, startKind, startRows, twin>>
    /\ UNCHANGED <<linkVars, memVars, siteVars, adminVars>>

\* step 3: count the old rows and, when there are any, copy them; both
\* branches of hasIPColumn run the same statement
A_Copy ==
    /\ lpc = "A_copy"
    /\ IF old.rows # {}
       THEN \E rnd \in Draws(old.rows), again \in Draws(old.rows) :
               /\ vis' = [vis EXCEPT !.rows = @ \cup CopyWithPlaceholder(old.rows, rnd),
                                     !.seq = @ + Cardinality(old.rows)]
               /\ twin' = HashedOf(CopyWithPlaceholder(old.rows, again))
       ELSE UNCHANGED <<vis, twin>>
    /\ lpc' = "A_drop"
    /\ UNCHANGED <<build, old, salt, trackTasks, startKind, startRows>>
    /\ UNCHANGED <<linkVars, memVars, siteVars, adminVars>>

\* step 4: DROP TABLE visitors_old
A_Drop ==
    /\ lpc = "A_drop"
    /\ old' = NoTable
    /\ lpc' = "ready"
    /\ UNCHANGED <<build, vis, salt, trackTasks, startKind, startRows, twin>>
    /\ UNCHANGED <<linkVars, memVars, siteVars, adminVars>>

\* ---- version B: initVisitorTracking (admin.go:728-773) ----

\* CREATE TABLE IF NOT EXISTS visitors (... hashed_ip TEXT NOT NULL ...)
B_Create ==
    /\ lpc = "B_create"
    /\ vis' = IF vis.exists THEN vis ELSE CreateNewVisitorTable
    /\ lpc' = "B_alter"
    /\ UNCHANGED <<build, old, salt, trackTasks, startKind, startRows, twin>>
    /\ UNCHANGED <<linkVars, memVars, siteVars, adminVars>>

\* ALTER TABLE visitors ADD COLUMN hashed_ip TEXT: fails when the column is
\* there, and then the pragma probe finds it (columnExists = 1); recreateTable
\* runs only when the statement fails on a table without the column, which a
\* storage layer that executes every statement never does
B_Alter ==
    /\ lpc = "B_alter"
    /\ vis' = IF "hashed_ip" \in vis.cols THEN vis
              ELSE [vis EXCEPT !.cols = @ \cup {"hashed_ip"}]
    /\ lpc' = "B_migrate"
    /\ UNCHANGED <<build, old, salt, trackTasks, startKind, startRows, twin>>
    /\ UNCHANGED <<linkVars, memVars, siteVars, adminVars>>

\* migrateExistingData
B_MigrateExisting ==
    /\ lpc = "B_migrate"
    /\ vis' = [vis EXCEPT !.rows = FillPlaceholders(@)]
    /\ twin' = IF \E r \in vis.rows : Unset(r.hashed_ip)
               THEN HashedOf(FillPlaceholders(vis.rows)) ELSE twin
    /\ lpc' = "ready"
    /\ UNCHANGED <<build, old, salt, trackTasks, startKind, startRows>>
    /\ UNCHANGED <<linkVars, memVars, siteVars, adminVars>>

\* ---- the same steps when the statement they run fails ----

\* migrateVisitorTable: the RENAME fails; the error is logged and the function
\* returns
A_RenameFails ==
    /\ lpc = "A_rename"
    /\ ~old.exists
    /\ lpc' = "ready"
    /\ UNCHANGED <<build, vis, old, salt, trackTasks, startKind, startRows, twin>>
    /\ UNCHANGED <<linkVars, memVars, siteVars, adminVars>>

\* createNewVisitorTable fails: log.Fatal ends the process
A_CreateFatal ==
    /\ lpc = "A_create"
    /\ lpc' = "down"
    /\ UNCHANGED <<build, vis, old, salt, trackTasks, startKind, startRows, twin>>
    /\ UNCHANGED <<linkVars, memVars, siteVars, adminVars>>

\* the INSERT ... SELECT fails: "Error migrating data" is logged and the
\* function goes on to the DROP
A_CopyFails ==
    /\ lpc = "A_copy"
    /\ old.rows # {}
    /\ lpc' = "A_drop"
    /\ UNCHANGED <<build, vis, old, salt, trackTasks, startKind, startRows, twin>>
    /\ UNCHANGED <<linkVars, memVars, siteVars, adminVars>>

\* the DROP fails: a warning is logged
A_DropFails ==
    /\ lpc = "A_drop"
    /\ lpc' = "ready"
    /\ UNCHANGED <<build, vis, old, salt, trackTasks, startKind, startRows, twin>>
    /\ UNCHANGED <<linkVars, memVars, siteVars, adminVars>>

\* version B: CREATE TABLE IF NOT EXISTS fails: log.Fatal
B_CreateFatal ==
    /\ lpc = "B_create"
    /\ lpc' = "down"
    /\ UNCHANGED <<build, vis, old, salt, trackTasks, startKind, startRows, twin>>
    /\ UNCHANGED <<linkVars, memVars, siteVars, adminVars>>

\* version B: the ALTER fails on a table without the column, the pragma probe
\* counts 0 and recreateTable runs
B_AlterFails ==
    /\ lpc = "B_alter"
    /\ "hashed_ip" \notin vis.cols
    /\ lpc' = "R_rename"
    /\ UNCHANGED <<build, vis, old, salt, trackTasks, startKind, startRows, twin>>
    /\ UNCHANGED <<linkVars, memVars, siteVars, adminVars>>

\* recreateTable (admin.go:776-823): RENAME, and a return when it fails
R_Rename ==
    /\ lpc = "R_rename"
    /\ IF old.exists
       THEN UNCHANGED <<vis, old>> /\ lpc' = "B_migrate"
       ELSE old' = vis /\ vis' = NoTable /\ lpc' = "R_create"
    /\ UNCHANGED <<build, salt, trackTasks, startKind, startRows, twin>>
    /\ UNCHANGED <<linkVars, memVars, siteVars, adminVars>>

R_RenameFails ==
    /\ lpc = "R_rename"
    /\ ~old.exists
    /\ lpc' = "B_migrate"
    /\ UNCHANGED <<build, vis, old, salt, trackTasks, startKind, startRows, twin>>
    /\ UNCHANGED <<linkVars, memVars, siteVars, adminVars>>

\* CREATE TABLE visitors
R_Create ==
    /\ lpc = "R_create"
    /\ vis' = CreateNewVisitorTable
    /\ lpc' = "R_copy"
    /\ UNCHANGED <<build, old, salt, trackTasks, startKind, startRows, twin>>
    /\ UNCHANGED <<linkVars, memVars, siteVars, adminVars>>

\* the CREATE fails: logged, recreateTable returns
R_CreateFails ==
    /\ lpc = "R_create"
    /\ lpc' = "B_migrate"
    /\ UNCHANGED <<build, vis, old, salt, trackTasks, startKind, startRows, twin>>
    /\ UNCHANGED <<linkVars, memVars, siteVars, adminVars>>

\* INSERT INTO visitors ... SELECT printf(...) ... FROM visitors_old
R_Copy ==
    /\ lpc = "R_copy"
    /\ \E rnd \in Draws(old.rows), again \in Draws(old.rows) :
          /\ vis' = [vis EXCEPT !.rows = @ \cup CopyWithPlaceholder(old.rows, rnd),
                                !.seq = @ + Cardinality(old.rows)]
          /\ twin' = HashedOf(CopyWithPlaceholder(old.rows, again))
    /\ lpc' = "R_drop"
    /\ UNCHANGED <<build, old, salt, trackTasks, startKind, startRows>>
    /\ UNCHANGED <<linkVars, memVars, siteVars, adminVars>>

\* the copy fails: "Could not migrate old data" is logged, the DROP follows
R_CopyFails ==
    /\ lpc = "R_copy"
    /\ lpc' = "R_drop"
    /\ UNCHANGED <<build, vis, old, salt, trackTasks, startKind, startRows, twin>>
    /\ UNCHANGED <<linkVars, memVars, siteVars, adminVars>>

\* db.Exec(`DROP TABLE visitors_old`), its result unread
R_Drop ==
    /\ lpc = "R_drop"
    /\ old' = NoTable
    /\ lpc' = "B_migrate"
    /\ UNCHANGED <<build, vis, salt, trackTasks, startKind, startRows, twin>>
    /\ UNCHANGED <<linkVars, memVars, siteVars, adminVars>>

R_DropFails ==
    /\ lpc = "R_drop"
    /\ lpc' = "B_migrate"
    /\ UNCHANGED <<build, vis, old, salt, trackTasks, startKind, startRows, twin>>
    /\ UNCHANGED <<linkVars, memVars, siteVars, adminVars>>

\* ---- both versions ----

\* initAdminToken: hashingSalt = generateAdminToken(); then r.Run
InitAdminToken ==
    /\ lpc = "ready"
    /\ \E t \in Tokens : adminToken' = t
    /\ \E s \in Salts : salt' = s
    /\ issued' = {}
    /\ lpc' = "serving"
    /\ UNCHANGED <<build, vis, old, trackTasks, startKind, startRows, twin>>
    /\ UNCHANGED <<jar, lastAdmin, lastGen>>
    /\ UNCHANGED <<linkVars, memVars, adminVars>>

Recorded ==
    Cardinality({r \in vis.rows \cup old.rows : r.by[1] = "record"})
        + Cardinality(trackTasks)

\* strings.HasPrefix
HasPrefix(s, prefix) ==
    Len(s) >= Len(prefix) /\ SubSeq(s, 1, Len(prefix)) = prefix

\* "/static/", "/images/", "/admin/", "/favicon", "/privacy"
SkipPrefixes ==
    { <<"/", "static", "/">>, <<"/", "images", "/">>, <<"/", "admin", "/">>,
      <<"/", "favicon">>, <<"/", "privacy">> }

\* (variant that honours every value of the DNT header and no path prefix)
SkipsTrackingAnyHeader(path, dnt) == dnt # NoHeader
\* the two early returns of the middleware
SkipsTracking(path, dnt) ==
    \/ \E prefix \in SkipPrefixes : HasPrefix(path, prefix)
    \/ dnt = "1"

\* what c.Next() answers for a request without the admin cookie: the
\* registered routes, adminAuthMiddleware's redirect, gin's 404
RouteStatus(path) ==
    IF path \in { HomePath, <<"/", "privacy">>,
                  <<"/", "static", "/", "site.css">>, <<"/", "images", "/", "me.png">> }
    THEN 200
    ELSE IF path = <<"/", "admin", "/", "dashboard">> THEN 302 ELSE 404

\* the arguments of go trackVisitorPrivacy(...); dnt is history
Task(addr, path, dnt) == [addr |-> addr, path |-> path, dnt |-> dnt]

\* visitorTrackingMiddleware and the handlers behind it
VisitorTrackingMiddleware(addr, path, dnt) ==
    /\ lpc = "serving"
    /\ IF SkipsTracking(path, dnt)
       THEN UNCHANGED trackTasks
       ELSE /\ Task(addr, path, dnt) \notin trackTasks
            /\ Recorded < MaxInserts
            /\ trackTasks' = trackTasks \cup {Task(addr, path, dnt)}
    /\ lastPage' = [addr |-> addr, path |-> path, dnt |-> dnt,
                    status |-> RouteStatus(path),
                    tracked |-> trackTasks' # trackTasks,
                    optedOut |-> addr \in optOut]
    /\ optOut' = IF dnt = "1" THEN optOut \cup {addr} ELSE optOut
    /\ UNCHANGED <<build, lpc, vis, old, salt, startKind, startRows, twin>>
    /\ UNCHANGED <<cleanTasks, lastDelete, lastStats>>
    /\ UNCHANGED <<linkVars, memVars, siteVars>>

\* a request for the home page without a DNT header
TrackRequest(addr) == VisitorTrackingMiddleware(addr, HomePath, NoHeader)

\* (variant: the error ends the process, as log.Fatal does)
LogFatal(pc) == "down"
\* log.Printf: the goroutine returns, the process goes on
LogPrintf(pc) == pc

\* trackVisitorPrivacy: version A tries (hashed_ip, ...) and, when that INSERT
\* fails, (ip, ...) with the same hashed value; version B has no second try;
\* time.Now() is read when the goroutine runs
TrackVisitorPrivacy(task) ==
    /\ lpc = "serving"
    /\ task \in trackTasks
    /\ LET h == hashIP(task.addr)
           a == task.addr
       IN  IF CanInsert(vis, {"hashed_ip"})
           THEN /\ vis' = InsertRow(vis, NULLV, h, ByRecord(a, salt, "first"), task, clock)
                /\ lpc' = lpc
           ELSE IF build = "A" /\ CanInsert(vis, {"ip"})
           THEN /\ vis' = InsertRow(vis, h, NULLV, ByRecord(a, salt, "fallback"), task, clock)
                /\ lpc' = lpc
           ELSE /\ UNCHANGED vis
                /\ lpc' = LogPrintf(lpc)
    /\ trackTasks' = IF lpc' = "serving" THEN trackTasks \ {task} ELSE {}
    /\ UNCHANGED <<build, old, salt, startKind, startRows, twin>>
    /\ UNCHANGED <<linkVars, memVars, siteVars, adminVars>>

\* (variant whose comparison is <=)
ExpiredInclusive(r, now) == r.timestamp <= now - RetentionMonths
\* WHERE timestamp < datetime('now', '-12 months'), in months
Expired(r, now) == r.timestamp < now - RetentionMonths

\* (variant: the error ends the process)
PruneErrorFatal(pc) == "down"
\* log.Printf("Error cleaning up old visitor data: %v", err); return
PruneErrorLogged(pc) == pc

\* cleanupOldVisitorData: the DELETE; an error (no such table) is logged
CleanupOldVisitorData ==
    /\ lpc = "serving"
    /\ cleanTasks > 0
    /\ cleanTasks' = cleanTasks - 1
    /\ vis' = IF vis.exists
              THEN [vis EXCEPT !.rows = {r \in @ : ~Expired(r, clock)}]
              ELSE vis
    /\ lpc' = IF vis.exists THEN lpc ELSE PruneErrorLogged(lpc)
    /\ UNCHANGED <<build, old, salt, trackTasks, startKind, startRows, twin>>
    /\ UNCHANGED <<lastPage, optOut, lastDelete, lastStats>>
    /\ UNCHANGED <<linkVars, memVars, siteVars>>

\* POST /admin/privacy/delete-visitor-data: go cleanupOldVisitorData()
PrivacyCleanupRequest ==
    /\ lpc = "serving"
    /\ cleanTasks < MaxCleanTasks
    /\ cleanTasks' = cleanTasks + 1
    /\ UNCHANGED <<lastPage, optOut, lastDelete, lastStats>>
    /\ UNCHANGED <<linkVars, memVars, siteVars, ledgerVars>>

\* a month goes by
MonthPasses ==
    /\ lpc = "serving"
    /\ clock < MaxMonths
    /\ clock' = clock + 1
    /\ UNCHANGED <<proc, urlsTable, clicksCol, urls, incTasks, lastLookup,
                   lastShorten, submitted, hits, dropped>>
    /\ UNCHANGED <<memVars, siteVars, ledgerVars, adminVars>>

\* the process stops; the database file stays
StopProcess ==
    /\ lpc = "serving"
    /\ lpc' = "down"
    /\ trackTasks' = {}
    /\ cleanTasks' = 0
    /\ UNCHANGED <<build, vis, old, salt, startKind, startRows, twin>>
    /\ UNCHANGED <<lastPage, optOut, lastDelete, lastStats>>
    /\ UNCHANGED <<linkVars, memVars, siteVars>>

----------------------------------------------------------------------------
(* The Link Store specification *)

\* a fresh deployment, or a database file left by the version of main.go
\* without click tracking (no clicks column) holding one link
InitLinkRows ==
    { [c \in Codes |-> NoRow],
      [c \in Codes |-> IF c = "abc123" THEN NewRow(c, "http://a", 0) ELSE NoRow] }

MemInit ==
    /\ memUrls = [c \in Codes |-> None]
    /\ mu = [writer |-> None, readers |-> {}]
    /\ memReq = [r \in Reqs |-> MemIdle]

LedgerIdle ==
    /\ build = "A"
    /\ lpc = "off"
    /\ vis = NoTable
    /\ old = NoTable
    /\ salt = None
    /\ trackTasks = {}
    /\ startKind = None
    /\ startRows = {}
    /\ twin = {}

AdminIdle ==
    /\ lastPage = NoResult
    /\ optOut = {}
    /\ cleanTasks = 0
    /\ lastDelete = NoResult
    /\ lastStats = NoResult

\* no admin token yet, no cookie in any browser
SiteIdle ==
    /\ adminToken = ""
    /\ jar = [b \in Browsers |-> NoCookie]
    /\ issued = {}
    /\ lastAdmin = NoResult
    /\ lastGen = NoResult

\* after initAdminToken
SiteServing ==
    /\ adminToken = "t1"
    /\ jar = [b \in Browsers |-> NoCookie]
    /\ issued = {}
    /\ lastAdmin = NoResult
    /\ lastGen = NoResult

LinkIdle ==
    /\ proc = "off"
    /\ urlsTable = FALSE
    /\ clicksCol = FALSE
    /\ urls = [c \in Codes |-> NoRow]
    /\ clock = 0
    /\ incTasks = [c \in Codes |-> 0]
    /\ lastLookup = NoResult
    /\ lastShorten = NoResult
    /\ submitted = [c \in Codes |-> None]
    /\ hits = [c \in Codes |-> 0]
    /\ dropped = [c \in Codes |-> 0]

Init ==
    /\ proc = "down"
    /\ urls \in InitLinkRows
    /\ urlsTable = (\E c \in Codes : urls[c] # NoRow)
    /\ clicksCol = FALSE
    /\ clock = 0
    /\ incTasks = [c \in Codes |-> 0]
    /\ lastLookup = NoResult
    /\ lastShorten = NoResult
    /\ submitted = [c \in Codes |-> IF urls[c] = NoRow THEN None
                                     ELSE urls[c].original_url]
    /\ hits = [c \in Codes |-> 0]
    /\ dropped = [c \in Codes |-> 0]
    /\ MemInit
    /\ LedgerIdle
    /\ AdminIdle
    /\ SiteIdle

Next ==
    \/ InitDB
    \/ AddClicksColumn
    \/ Restart
    \/ Tick
    \/ \E p \in Posted : ShortenRejected(p)
    \/ \E p \in Posted : ShortenNoEntropy(p)
    \/ \E p \in Posted, c \in Codes : Shorten(p, c)
    \/ \E c \in Codes : Lookup(c)
    \/ \E c \in Codes : IncrementClicks(c)
    \/ \E c \in Codes : DeleteURL(c)

Spec == Init /\ [][Next]_vars

\* the Link Store of a process that has finished its startup, on a storage
\* layer whose SELECT and UPDATE can fail, with the admin's delete and its
\* response
InitServe ==
    /\ proc = "serving"
    /\ urls \in InitLinkRows
    /\ urlsTable = TRUE
    /\ clicksCol = TRUE
    /\ clock = 0
    /\ incTasks = [c \in Codes |-> 0]
    /\ lastLookup = NoResult
    /\ lastShorten = NoResult
    /\ submitted = [c \in Codes |-> IF urls[c] = NoRow THEN None
                                     ELSE urls[c].original_url]
    /\ hits = [c \in Codes |-> 0]
    /\ dropped = [c \in Codes |-> 0]
    /\ MemInit
    /\ LedgerIdle
    /\ AdminIdle
    /\ SiteIdle

NextServe ==
    \/ \E p \in Posted, c \in Codes : Shorten(p, c)
    \/ \E c \in Codes : Lookup(c)
    \/ \E c \in Codes : LookupFails(c)
    \/ \E c \in Codes : IncrementClicks(c)
    \/ \E c \in Codes : IncrementClicksFails(c)
    \/ \E c \in Codes : AdminDeleteURL(c)

SpecServe == InitServe /\ [][NextServe]_vars

\* POST /shorten-url on its own, with the delete that frees a code
NextShorten ==
    \/ \E p \in Posted : ShortenRejected(p)
    \/ \E p \in Posted : ShortenNoEntropy(p)
    \/ \E p \in Posted, c \in Codes : Shorten(p, c)
    \/ \E c \in Codes : DeleteURL(c)

SpecShorten == InitServe /\ [][NextShorten]_vars

----------------------------------------------------------------------------
(* The in-memory variant's specification *)
InitMem ==
    /\ LinkIdle
    /\ MemInit
    /\ LedgerIdle
    /\ AdminIdle
    /\ SiteIdle

NextMem ==
    \/ \E r \in Reqs, p \in Posted : MemShortenRejected(r, p)
    \/ \E r \in Reqs, p \in Posted : MemShortenNoEntropy(r, p)
    \/ \E r \in Reqs, p \in Posted, c \in Codes : MemShortenBegin(r, p, c)
    \/ \E r \in Reqs : MemLock(r)
    \/ \E r \in Reqs : MemStore(r)
    \/ \E r \in Reqs : MemUnlock(r)
    \/ \E r \in Reqs, c \in Codes : MemRedirectBegin(r, c)
    \/ \E r \in Reqs : MemRLock(r)
    \/ \E r \in Reqs : MemRead(r)
    \/ \E r \in Reqs : MemRUnlock(r)

SpecMem == InitMem /\ [][NextMem]_vars

----------------------------------------------------------------------------
(* The Visitor Ledger specification *)

\* the database files a deployment can find: none, the table written by the
\* first version of the admin module (raw ip), the table of an earlier run of
\* this version (hashed_ip), and the raw table after version B has added and
\* filled hashed_ip
RowIds == 0 .. MaxRows
LegacyRows(n, f) == {VRow(i, RawAddr(f[i]), NULLV, ByLegacy) : i \in 1 .. n}
InitTables ==
    {NoTable}
    \cup {LegacyTable(LegacyRows(n, f)) : n \in RowIds, f \in [1 .. MaxRows -> Addrs]}
    \cup {[CreateNewVisitorTable EXCEPT
             !.rows = {VRow(i, NULLV, <<"sha", f[i], "s0">>,
                            ByRecord(f[i], "s0", "first")) : i \in 1 .. n},
             !.seq = n] : n \in RowIds, f \in [1 .. MaxRows -> Addrs]}
    \cup {[LegacyTable(FillPlaceholders(LegacyRows(n, f))) EXCEPT
             !.cols = {"ip", "hashed_ip"}] : n \in RowIds, f \in [1 .. MaxRows -> Addrs]}

InitLedger ==
    /\ LinkIdle
    /\ MemInit
    /\ build \in {"A", "B"}
    /\ lpc = "down"
    /\ vis \in InitTables
    /\ old = NoTable
    /\ salt = None
    /\ trackTasks = {}
    /\ startKind = None
    /\ startRows = {}
    /\ twin = {}
    /\ AdminIdle
    /\ SiteIdle

NextLedger ==
    \/ StartProcess
    \/ A_CheckTable
    \/ A_Rename
    \/ A_Create
    \/ A_Copy
    \/ A_Drop
    \/ B_Create
    \/ B_Alter
    \/ B_MigrateExisting
    \/ InitAdminToken
    \/ \E a \in Addrs : TrackRequest(a)
    \/ \E t \in trackTasks : TrackVisitorPrivacy(t)
    \/ StopProcess

SpecLedger == InitLedger /\ [][NextLedger]_vars

\* the ledger on a storage layer whose statements can fail
NextLedgerFault ==
    \/ NextLedger
    \/ A_RenameFails
    \/ A_CreateFatal
    \/ A_CopyFails
    \/ A_DropFails
    \/ B_CreateFatal
    \/ B_AlterFails
    \/ R_Rename
    \/ R_RenameFails
    \/ R_Create
    \/ R_CreateFails
    \/ R_Copy
    \/ R_CopyFails
    \/ R_Drop
    \/ R_DropFails

SpecLedgerFault == InitLedger /\ [][NextLedgerFault]_vars

----------------------------------------------------------------------------
(* The serving process: retention, and requests through the middleware *)

\* the tables a process that has finished its startup serves from: the
\* hashed table (empty, or with a row of an earlier run), the table with both
\* address columns that version B leaves, and no table after a failed
\* recreateTable
ServingTables ==
    { CreateNewVisitorTable,
      [CreateNewVisitorTable EXCEPT
          !.rows = {VRow(1, NULLV, <<"sha", "10.0.0.1", "s0">>,
                         ByRecord("10.0.0.1", "s0", "first"))},
          !.seq = 1],
      [LegacyTable({}) EXCEPT !.cols = {"ip", "hashed_ip"}],
      NoTable }

\* after initVisitorTracking (which leaves its cleanup goroutine behind) and
\* initAdminToken
InitServing ==
    /\ LinkIdle
    /\ MemInit
    /\ build \in {"A", "B"}
    /\ lpc = "serving"
    /\ vis \in ServingTables
    /\ old = NoTable
    /\ salt = "s1"
    /\ trackTasks = {}
    /\ startKind = SchemaKind(vis)
    /\ startRows = vis.rows
    /\ twin = {}
    /\ lastPage = NoResult
    /\ optOut = {}
    /\ cleanTasks = 1
    /\ lastDelete = NoResult
    /\ lastStats = NoResult
    /\ SiteServing

NextRetention ==
    \/ \E a \in Addrs : TrackRequest(a)
    \/ \E t \in trackTasks : TrackVisitorPrivacy(t)
    \/ CleanupOldVisitorData
    \/ PrivacyCleanupRequest
    \/ MonthPasses

SpecRetention == InitServing /\ [][NextRetention]_vars

\* one client's requests, over every path and DNT header
OneClient == {"10.0.0.1"}
NextTrack ==
    \/ \E a \in OneClient, p \in Paths, d \in Headers : VisitorTrackingMiddleware(a, p, d)
    \/ \E t \in trackTasks : TrackVisitorPrivacy(t)

SpecTrack == InitServing /\ [][NextTrack]_vars

----------------------------------------------------------------------------
(* The Admin Aggregator: getAdminStats (admin.go:291-400, 865-953), one step *)
(* per query                                                                 *)

\* the order in which the rows of urls were inserted
RowOrder == <<"abc123", "zzz999", "u03", "u04", "u05", "u06", "u07", "u08",
              "u09", "u10", "u11">>
Rowid(c) == CHOOSE i \in DOMAIN RowOrder : RowOrder[i] = c

Min(a, b) == IF a < b THEN a ELSE b
Take(q, n) == SubSeq(q, 1, Min(n, Len(q)))

\* the result columns short_code, created_at, COALESCE(clicks, 0)
URLStat(tbl, c) == [code |-> c, created_at |-> tbl[c].created_at, clicks |-> tbl[c].clicks]

\* rows the ORDER BY does not tell apart come out in either rowid order
TieFirst(i, j, tie) == IF tie = "asc" THEN i < j ELSE i > j

\* (variant: ties on clicks put the older entry first)
TopBeforeOldestFirst(x, y, tie) ==
    \/ x.clicks > y.clicks
    \/ x.clicks = y.clicks /\ x.created_at < y.created_at
    \/ x.clicks = y.clicks /\ x.created_at = y.created_at
         /\ TieFirst(Rowid(x.code), Rowid(y.code), tie)
\* ORDER BY clicks DESC, created_at DESC
TopBefore(x, y, tie) ==
    \/ x.clicks > y.clicks
    \/ x.clicks = y.clicks /\ x.created_at > y.created_at
    \/ x.clicks = y.clicks /\ x.created_at = y.created_at
         /\ TieFirst(Rowid(x.code), Rowid(y.code), tie)

RECURSIVE SortTop(_, _)
SortTop(S, tie) ==
    IF S = {} THEN <<>>
    ELSE LET m == CHOOSE x \in S : \A y \in S \ {x} : TopBefore(x, y, tie)
         IN  <<m>> \o SortTop(S \ {m}, tie)

\* SELECT ... FROM urls ORDER BY clicks DESC, created_at DESC LIMIT 10
TopURLsQuery(tbl, tie) ==
    Take(SortTop({URLStat(tbl, c) : c \in {d \in DOMAIN tbl : tbl[d] # NoRow}}, tie),
         TopLimit)

\* ORDER BY timestamp DESC
RecentBefore(x, y, tie) ==
    \/ x.timestamp > y.timestamp
    \/ x.timestamp = y.timestamp /\ TieFirst(x.id, y.id, tie)

RECURSIVE SortRecent(_, _)
SortRecent(S, tie) ==
    IF S = {} THEN <<>>
    ELSE LET m == CHOOSE x \in S : \A y \in S \ {x} : RecentBefore(x, y, tie)
         IN  <<m>> \o SortRecent(S \ {m}, tie)

\* the column a row is read from
Col(r, name) == IF name = "ip" THEN r.ip ELSE r.hashed_ip

\* rows.Scan into the string field HashedIP fails on NULL
ScanFails(r, name) == Col(r, name) = NULLV

\* for rows.Next() { if err := rows.Scan(...); err != nil { continue }; append }
RECURSIVE ScanAll(_, _)
ScanAll(q, name) ==
    IF q = <<>> THEN <<>>
    ELSE IF ScanFails(Head(q), name) THEN ScanAll(Tail(q), name)
    ELSE <<Head(q).id>> \o ScanAll(Tail(q), name)

\* version A probes pragma_table_info for hashed_ip and falls back to ip;
\* version B names hashed_ip
AddressColumn ==
    IF build = "A" /\ "hashed_ip" \notin vis.cols THEN "ip" ELSE "hashed_ip"

StatsStart ==
    [pc |-> "total", err |-> FALSE, TotalVisitors |-> 0, UniqueVisitors |-> 0,
     TotalURLs |-> 0, TotalClicks |-> 0, VisitorsToday |-> 0,
     VisitorsThisWeek |-> 0, TopURLs |-> <<>>, RecentVisitors |-> <<>>,
     skipped |-> 0]

\* return nil, err
StatsError == [pc |-> "done", err |-> TRUE]

\* (variant: an aggregation that clears the visitors it has counted)
StatsFrameClearing ==
    /\ vis' = [vis EXCEPT !.rows = {}]
    /\ UNCHANGED <<build, lpc, old, salt, trackTasks, startKind, startRows, twin>>
    /\ UNCHANGED <<lastPage, optOut, cleanTasks, lastDelete>>
    /\ UNCHANGED <<linkVars, memVars, siteVars>>
\* every statement of getAdminStats is a SELECT
StatsFrame ==
    /\ UNCHANGED <<lastPage, optOut, cleanTasks, lastDelete>>
    /\ UNCHANGED <<linkVars, memVars, siteVars, ledgerVars>>

GetAdminStatsBegin ==
    /\ lpc = "serving" /\ proc = "serving"
    /\ IF lastStats = NoResult THEN TRUE ELSE lastStats.pc = "done"
    /\ lastStats' = StatsStart
    /\ StatsFrame

\* SELECT COUNT(*) FROM visitors
Stats_TotalVisitors ==
    /\ lastStats # NoResult /\ lastStats.pc = "total"
    /\ lastStats' = IF ~vis.exists THEN StatsError
                    ELSE [lastStats EXCEPT !.pc = "unique",
                            !.TotalVisitors = Cardinality(vis.rows)]
    /\ StatsFrame

\* SELECT COUNT(DISTINCT hashed_ip) FROM visitors, or ... DISTINCT ip
Stats_UniqueVisitors ==
    /\ lastStats # NoResult /\ lastStats.pc = "unique"
    /\ lastStats' = IF ~vis.exists \/ AddressColumn \notin vis.cols THEN StatsError
                    ELSE [lastStats EXCEPT !.pc = "urls",
                            !.UniqueVisitors =
                                Cardinality({Col(r, AddressColumn) : r \in vis.rows}
                                              \ {NULLV})]
    /\ StatsFrame

\* SELECT COUNT(*) FROM urls
Stats_TotalURLs ==
    /\ lastStats # NoResult /\ lastStats.pc = "urls"
    /\ lastStats' = IF ~urlsTable THEN StatsError
                    ELSE [lastStats EXCEPT !.pc = "clicks",
                            !.TotalURLs =
                                Cardinality({c \in DOMAIN urls : urls[c] # NoRow})]
    /\ StatsFrame

\* SELECT COALESCE(SUM(clicks), 0) FROM urls
Stats_TotalClicks ==
    /\ lastStats # NoResult /\ lastStats.pc = "clicks"
    /\ lastStats' = IF ~urlsTable \/ ~clicksCol THEN StatsError
                    ELSE [lastStats EXCEPT !.pc = "today",
                            !.TotalClicks =
                                SumOver([c \in DOMAIN urls |->
                                           IF urls[c] = NoRow THEN 0 ELSE urls[c].clicks],
                                        DOMAIN urls)]
    /\ StatsFrame

\* SELECT COUNT(*) FROM visitors WHERE DATE(timestamp) = DATE('now'), the
\* clock counting days
Stats_VisitorsToday ==
    /\ lastStats # NoResult /\ lastStats.pc = "today"
    /\ lastStats' = IF ~vis.exists THEN StatsError
                    ELSE [lastStats EXCEPT !.pc = "week",
                            !.VisitorsToday =
                                Cardinality({r \in vis.rows : r.timestamp = clock})]
    /\ StatsFrame

\* ... WHERE timestamp >= datetime('now', '-7 days')
Stats_VisitorsThisWeek ==
    /\ lastStats # NoResult /\ lastStats.pc = "week"
    /\ lastStats' = IF ~vis.exists THEN StatsError
                    ELSE [lastStats EXCEPT !.pc = "top",
                            !.VisitorsThisWeek =
                                Cardinality({r \in vis.rows :
                                               r.timestamp >= clock - WeekDays})]
    /\ StatsFrame

\* Top URLs by clicks
Stats_TopURLs ==
    /\ lastStats # NoResult /\ lastStats.pc = "top"
    /\ IF ~urlsTable \/ ~clicksCol
       THEN lastStats' = StatsError
       ELSE \E tie \in {"asc", "desc"} :
               lastStats' = [lastStats EXCEPT !.pc = "recent",
                               !.TopURLs = TopURLsQuery(urls, tie)]
    /\ StatsFrame

\* Recent visitors: ORDER BY timestamp DESC LIMIT 50, then the scan loop
Stats_RecentVisitors ==
    /\ lastStats # NoResult /\ lastStats.pc = "recent"
    /\ IF ~vis.exists \/ AddressColumn \notin vis.cols
       THEN lastStats' = StatsError
       ELSE \E tie \in {"asc", "desc"} :
               LET got == Take(SortRecent(vis.rows, tie), RecentLimit)
                   ids == ScanAll(got, AddressColumn)
               IN  lastStats' = [lastStats EXCEPT !.pc = "done",
                                   !.RecentVisitors = ids,
                                   !.skipped = Len(got) - Len(ids)]
    /\ StatsFrame

\* the urls tables the aggregation is run on: the first 3 or all 11 rows of
\* a table whose first two rows take every clicks and created_at value
TopTables ==
    { [c \in {RowOrder[i] : i \in 1 .. Len(RowOrder)} |->
         IF Rowid(c) > n THEN NoRow
         ELSE IF Rowid(c) <= 2
         THEN [NewRow(c, "http://a", f[Rowid(c)][2]) EXCEPT !.clicks = f[Rowid(c)][1]]
         ELSE [NewRow(c, "http://a", Rowid(c) % (MaxClock + 1))
                  EXCEPT !.clicks = Rowid(c) % (MaxLookups + 1)]]
      : n \in {3, Len(RowOrder)},
        f \in [1 .. 2 -> (0 .. MaxLookups) \X (0 .. MaxClock)] }

\* a serving process with a links table and a visitors table
InitStats ==
    /\ proc = "serving"
    /\ urlsTable = TRUE
    /\ clicksCol = TRUE
    /\ urls \in TopTables
    /\ clock = 0
    /\ incTasks = [c \in Codes |-> 0]
    /\ lastLookup = NoResult
    /\ lastShorten = NoResult
    /\ submitted = [c \in Codes |-> None]
    /\ hits = [c \in Codes |-> 0]
    /\ dropped = [c \in Codes |-> 0]
    /\ MemInit
    /\ build \in {"A", "B"}
    /\ lpc = "serving"
    /\ vis \in ServingTables
    /\ old = NoTable
    /\ salt = "s1"
    /\ trackTasks = {}
    /\ startKind = SchemaKind(vis)
    /\ startRows = vis.rows
    /\ twin = {}
    /\ AdminIdle
    /\ SiteServing

NextStats ==
    \/ GetAdminStatsBegin
    \/ Stats_TotalVisitors
    \/ Stats_UniqueVisitors
    \/ Stats_TotalURLs
    \/ Stats_TotalClicks
    \/ Stats_VisitorsToday
    \/ Stats_VisitorsThisWeek
    \/ Stats_TopURLs
    \/ Stats_RecentVisitors
    \/ \E a \in OneClient : TrackRequest(a)
    \/ \E t \in trackTasks : TrackVisitorPrivacy(t)

SpecStats == InitStats /\ [][NextStats]_vars

----------------------------------------------------------------------------
(* The admin surface: login, logout and the routes behind adminAuthMiddleware *)
(* (admin.go:77-88, 411-595)                                                  *)

\* what a request can carry as its admin_token cookie: none, the empty
\* value, a token value
CookieValues == Tokens \cup {NoCookie, ""}

\* os.Getenv("ADMIN_USERNAME"), os.Getenv("ADMIN_PASSWORD") with their defaults
AdminUsername == "admin"
AdminPassword == "admin123"
Credentials   == {<<"admin", "admin123">>, <<"admin", "guess">>, <<"root", "admin123">>}

\* the routes registered on adminGroup
DashboardRoute == "GET /admin/dashboard"
ApiStatsRoute  == "GET /admin/api/stats"
UrlsRoute      == "GET /admin/urls"
VisitorsRoute  == "GET /admin/visitors"
DeleteRoute    == "DELETE /admin/urls/:code"
CleanupRoute   == "POST /admin/privacy/delete-visitor-data"
ExportRoute    == "GET /admin/export/stats"
StatsRoutes    == {DashboardRoute, ApiStatsRoute, ExportRoute}
AdminGroup     ==
    StatsRoutes \cup {UrlsRoute, VisitorsRoute, DeleteRoute, CleanupRoute}

\* a request to the group: the route and, for the delete, the :code
AdminRequests ==
    {<<r, None>> : r \in AdminGroup \ {DeleteRoute}}
        \cup {<<DeleteRoute, c>> : c \in Codes}

\* c.Cookie("admin_token") returns an error when the request has no such cookie
CookieErr(cookie) == cookie = NoCookie

\* (variant that only asks for the cookie to be there)
AuthorizedAnyCookie(cookie, token) == ~CookieErr(cookie)
\* adminAuthMiddleware lets the request through unless
\* err != nil || subtle.ConstantTimeCompare(token, adminToken) != 1
Authorized(cookie, token) == ~CookieErr(cookie) /\ cookie = token

\* some query of getAdminStats returns an error on the tables as they are
GetAdminStatsErr ==
    \/ ~vis.exists
    \/ AddressColumn \notin vis.cols
    \/ ~urlsTable
    \/ ~clicksCol

\* the listing query of GET /admin/visitors names hashed_ip
VisitorsQueryErr == ~vis.exists \/ "hashed_ip" \notin vis.cols

\* SELECT ... FROM visitors ORDER BY timestamp DESC LIMIT 200 and the scan
\* loop that skips a row it cannot read
VisitorsListing(tie) ==
    ScanAll(Take(SortRecent(vis.rows, tie), ListLimit), "hashed_ip")

\* the status the handler of a route answers with
HandlerStatus(route, code) ==
    CASE route \in StatsRoutes -> IF GetAdminStatsErr THEN 500 ELSE 200
      [] route = UrlsRoute     -> IF ~urlsTable \/ ~clicksCol THEN 500 ELSE 200
      [] route = VisitorsRoute -> IF VisitorsQueryErr THEN 500 ELSE 200
      [] route = DeleteRoute   -> DeleteStatus(DeleteRow(urls, code).rows)
      [] route = CleanupRoute  -> 200

\* a request to a route of adminGroup: adminAuthMiddleware, then the handler
\* (ran: history, c.Next() was called; body: the rows GET /admin/visitors lists)
AdminRequest(route, cookie, code) ==
    /\ lpc = "serving"
    /\ proc = "serving"
    /\ LET ok  == Authorized(cookie, adminToken)
           del == DeleteRow(urls, code)
           deletes  == ok /\ route = DeleteRoute
           cleans   == ok /\ route = CleanupRoute
           lists    == ok /\ route = VisitorsRoute /\ ~VisitorsQueryErr
       IN  /\ cleans => cleanTasks < MaxCleanTasks
           /\ \E tie \in {"asc", "desc"} :
                 lastAdmin' =
                    [route |-> route, cookie |-> cookie, code |-> code,
                     status |-> IF ok THEN HandlerStatus(route, code) ELSE 302,
                     location |-> IF ok THEN "" ELSE "/admin/login",
                     ran |-> ok,
                     body |-> IF lists THEN VisitorsListing(tie) ELSE <<>>]
           /\ urls' = IF deletes THEN del.tbl ELSE urls
           /\ lastDelete' = IF deletes
                            THEN [code |-> code, rows |-> del.rows,
                                  status |-> DeleteStatus(del.rows),
                                  stored |-> Exists(code),
                                  inflight |-> incTasks[code]]
                            ELSE lastDelete
           /\ cleanTasks' = IF cleans THEN cleanTasks + 1 ELSE cleanTasks
    /\ submitted' = [c \in Codes |-> IF urls'[c] = NoRow THEN None ELSE submitted[c]]
    /\ dropped' = [c \in Codes |->
                     IF urls[c] # NoRow /\ urls'[c] = NoRow
                     THEN dropped[c] + urls[c].clicks ELSE dropped[c]]
    /\ UNCHANGED <<proc, urlsTable, clicksCol, clock, incTasks, lastLookup,
                   lastShorten, hits>>
    /\ UNCHANGED <<lastPage, optOut, lastStats>>
    /\ UNCHANGED <<adminToken, jar, issued, lastGen>>
    /\ UNCHANGED <<memVars, ledgerVars>>

\* (variant that starts a session of its own at every login)
TokenAfterLoginFresh(token, fresh) == fresh
\* the login handler reads adminToken and does not assign it
TokenAfterLogin(token, fresh) == token

\* username == adminUsername && password == adminPassword
CredentialsOK(cred) == cred[1] = AdminUsername /\ cred[2] = AdminPassword

\* c.SetCookie("admin_token", value, maxAge, ...): a negative maxAge makes
\* the browser drop the cookie
SetCookie(j, b, value, maxAge) ==
    [j EXCEPT ![b] = IF maxAge < 0 THEN NoCookie ELSE value]

\* POST /admin/login from browser b
Login(b, cred) ==
    /\ lpc = "serving"
    /\ \E fresh \in Tokens : adminToken' = TokenAfterLogin(adminToken, fresh)
    /\ IF CredentialsOK(cred)
       THEN /\ jar' = SetCookie(jar, b, adminToken', CookieMaxAge)
            /\ issued' = issued \cup {adminToken'}
            /\ lastAdmin' = [route |-> "POST /admin/login", cookie |-> jar[b],
                             code |-> None, status |-> 302,
                             location |-> "/admin/dashboard", ran |-> TRUE,
                             body |-> <<>>]
       ELSE /\ UNCHANGED <<jar, issued>>
            /\ lastAdmin' = [route |-> "POST /admin/login", cookie |-> jar[b],
                             code |-> None, status |-> 401, location |-> "",
                             ran |-> TRUE, body |-> <<>>]
    /\ UNCHANGED lastGen
    /\ UNCHANGED <<linkVars, memVars, ledgerVars, adminVars>>

\* GET /admin/logout from browser b: outside the group, no check
Logout(b) ==
    /\ lpc = "serving"
    /\ jar' = SetCookie(jar, b, "", -1)
    /\ lastAdmin' = [route |-> "GET /admin/logout", cookie |-> jar[b],
                     code |-> None, status |-> 302, location |-> "/admin/login",
                     ran |-> TRUE, body |-> <<>>]
    /\ UNCHANGED <<adminToken, issued, lastGen>>
    /\ UNCHANGED <<linkVars, memVars, ledgerVars, adminVars>>

----------------------------------------------------------------------------
(* The whole serving site: links, visitors, retention and the aggregation *)

\* the form value of one well-formed submission
OnePost == {<<FALSE, "https://b">>}

\* after main's initDB, initVisitorTracking and initAdminToken, on a fresh
\* database file or one that holds a link
InitSite ==
    /\ proc = "serving"
    /\ urls \in InitLinkRows
    /\ urlsTable = TRUE
    /\ clicksCol = TRUE
    /\ clock = 0
    /\ incTasks = [c \in Codes |-> 0]
    /\ lastLookup = NoResult
    /\ lastShorten = NoResult
    /\ submitted = [c \in Codes |-> IF urls[c] = NoRow THEN None
                                     ELSE urls[c].original_url]
    /\ hits = [c \in Codes |-> 0]
    /\ dropped = [c \in Codes |-> 0]
    /\ MemInit
    /\ build = "A"
    /\ lpc = "serving"
    /\ vis = CreateNewVisitorTable
    /\ old = NoTable
    /\ salt = "s1"
    /\ trackTasks = {}
    /\ startKind = SchemaKind(vis)
    /\ startRows = vis.rows
    /\ twin = {}
    /\ lastPage = NoResult
    /\ optOut = {}
    /\ cleanTasks = 1
    /\ lastDelete = NoResult
    /\ lastStats = NoResult
    /\ SiteServing

\* what the logged-in admin asks for: the dashboard
SiteRequests == {q \in AdminRequests : q[1] = DashboardRoute}

NextSite ==
    \/ \E p \in OnePost, c \in Codes : Shorten(p, c)
    \/ \E c \in Codes : Lookup(c)
    \/ \E c \in Codes : IncrementClicks(c)
    \/ \E c \in Codes : DeleteURL(c)
    \/ \E a \in OneClient : TrackRequest(a)
    \/ \E t \in trackTasks : TrackVisitorPrivacy(t)
    \/ CleanupOldVisitorData
    \/ \E q \in SiteRequests : AdminRequest(q[1], adminToken, q[2])

SpecSite == InitSite /\ [][NextSite]_vars

----------------------------------------------------------------------------
(* Link Store properties *)

\* C1: a lookup returns the URL handed to the successful save of that code,
\* exactly as handed over, as long as the code has not been deleted, whatever
\* happened in between; a code that is not stored yields ("", false).
C1_RoundTrip ==
    lastLookup # NoResult =>
        IF lastLookup.saved = None
        THEN lastLookup.found = FALSE /\ lastLookup.url = ""
        ELSE lastLookup.found = TRUE /\ lastLookup.url = lastLookup.saved

\* a lookup of a saved code that came after an increment ran and another code
\* was saved, together with a lookup-able second entry
C1_Witness ==
    /\ lastLookup # NoResult
    /\ lastLookup.found
    /\ lastLookup.url = "https://b"
    /\ urls[lastLookup.code] # NoRow
    /\ urls[lastLookup.code].clicks >= 1
    /\ \A c \in Codes : urls[c] # NoRow

\* C2: no click increment is lost: for every code, the lookups that found it
\* are all accounted for by the stored counter, the increment tasks still to
\* run, and the increments whose row was deleted or whose process stopped; so
\* with nothing deleted or stopped, once the tasks have run, clicks = lookups.
C2_NoLostIncrement ==
    \A c \in Codes :
        (IF urls[c] # NoRow THEN urls[c].clicks ELSE 0) + incTasks[c] + dropped[c]
            = hits[c]

\* two lookups of one code were in flight and both increments have run
C2_Witness ==
    \E c \in Codes :
        /\ urls[c] # NoRow
        /\ hits[c] >= 2
        /\ incTasks[c] = 0
        /\ dropped[c] = 0
        /\ urls[c].clicks = hits[c]

\* C3: the clicks of an entry that stays stored never decreases from one step
\* to the next (save, lookup, increment, startup), and is never negative.
C3_ClicksMonotone ==
    [][\A c \in Codes :
          (urls[c] # NoRow /\ urls'[c] # NoRow) =>
              (urls'[c].clicks >= urls[c].clicks /\ urls'[c].clicks >= 0)]_vars

\* a process that starts again on a database whose entry has been clicked
C3_Witness ==
    /\ proc = "dbReady"
    /\ clicksCol
    /\ \E c \in Codes : urls[c] # NoRow /\ urls[c].clicks >= 1

\* C4 (as claimed): a save never changes an entry that is already stored, in
\* the database (where only a delete removes it) and in the in-memory store
\* alike: the URL and creation time on record stay what the first save wrote.
C4_SaveNeverOverwrites ==
    [][/\ \A c \in Codes :
            (urls[c] # NoRow /\ urls'[c] # NoRow) =>
                /\ urls'[c].original_url = urls[c].original_url
                /\ urls'[c].created_at = urls[c].created_at
       /\ \A c \in Codes : memUrls[c] # None => memUrls'[c] = memUrls[c]]_vars

\* C5 (as claimed): a single collision never makes the shorten request fail:
\* a request that ends with the save error has tried more than one code.
C5_CollisionIsRetried ==
    (lastShorten # NoResult /\ lastShorten.status = "save_error")
        => lastShorten.attempts > 1

----------------------------------------------------------------------------
(* Visitor Ledger properties *)

RecordRows == {r \in vis.rows \cup old.rows : r.by[1] = "record"}
Migrating  == lpc \notin {"off", "down", "serving"}

C7_MigrationKeepsRowsDistinct ==
    (lpc = "ready" /\ startKind = "legacy") =>
        /\ Cardinality(vis.rows) = Cardinality(startRows)
        /\ \A r \in vis.rows : ~Unset(r.hashed_ip)
        /\ \A r, q \in vis.rows : r.id # q.id => r.hashed_ip # q.hashed_ip
        /\ ~old.exists

\* C8 (as claimed): the placeholder of a migrated row is fixed by the row's id:
\* running the migration statement again on the same table assigns every row
\* the same placeholder.
C8_PlaceholderFromRowId ==
    (Migrating /\ startKind = "legacy" /\ twin # {}) =>
        \A r \in vis.rows : <<r.id, r.hashed_ip>> \in twin

\* C9 (as claimed): whatever table the process found (raw column only, hashed
\* column only, both, none), once startup is over visitors exists with the
\* hashed-address column and without a raw-address column.
C9_StartupConverges ==
    lpc = "serving" => (vis.exists /\ vis.cols = {"hashed_ip"})

\* C10: the hashed schema is terminal and idempotent: a startup that finds the
\* hashed schema leaves visitors (its columns, its rows and their hashed
\* values) and visitors_old untouched, at every restart, and no step ever
\* takes visitors out of the hashed schema.
C10_HashedSchemaIdempotent ==
    [][/\ (Migrating /\ startKind = "hashed") => (vis' = vis /\ old' = old)
       /\ SchemaKind(vis) = "hashed" => SchemaKind(vis') = "hashed"]_vars

\* a later startup has run to its end over a hashed table that holds a row
\* recorded by the previous run of the process
C10_Witness ==
    /\ lpc = "ready"
    /\ startKind = "hashed"
    /\ \E r \in vis.rows : r.by[1] = "record" /\ r.by[3] \in Salts

\* C11: the legacy migration loses no rows: from the start of a process that
\* found the raw-address table, in every execution, the ones where a step of
\* the migration fails included, visitors and visitors_old together hold at
\* least as many rows as the table held at the start.
C11_MigrationLosesNoRows ==
    (startKind = "legacy" /\ lpc \notin {"off", "down"}) =>
        Cardinality(vis.rows) + Cardinality(old.rows) >= Cardinality(startRows)

\* C12: retention pruning removes all and only the visitor rows older than 12
\* months: a run of the cleanup keeps exactly the rows whose age is at most 12
\* months and touches no other table.
C12_PrunesExactlyExpired ==
    [][(cleanTasks' < cleanTasks /\ lpc' = "serving") =>
          /\ vis.exists =>
               vis'.rows = {r \in vis.rows : clock - r.timestamp <= RetentionMonths}
          /\ old' = old
          /\ urls' = urls]_vars

\* a cleanup has removed a row and the table holds a row exactly 12 months old
C12_Witness ==
    /\ cleanTasks = 0
    /\ vis.seq > Cardinality(vis.rows)
    /\ \E r \in vis.rows : clock - r.timestamp = RetentionMonths

\* the paths the registered routes serve as assets (r.Static, and the favicon
\* a browser asks for), under the /admin group, and as the privacy page
AssetPaths ==
    { <<"/", "static", "/", "site.css">>, <<"/", "images", "/", "me.png">>,
      <<"/", "favicon", ".ico">> }
AdminPaths   == { <<"/", "admin", "/", "dashboard">> }
PrivacyPaths == { <<"/", "privacy">> }
UntrackedPaths == AssetPaths \cup AdminPaths \cup PrivacyPaths

\* C13: no visitor row (and no pending recording) stands for a request to an
\* asset path, to the admin subtree or to the privacy page, or for a request
\* that carried DNT: 1; and a request is handed to the recorder exactly when
\* it is none of these, whatever the same client sent before.
C13_ExclusionsAndOptOut ==
    /\ \A r \in RecordRows : r.path \notin UntrackedPaths /\ r.dnt # "1"
    /\ \A t \in trackTasks : t.path \notin UntrackedPaths /\ t.dnt # "1"
    /\ lastPage # NoResult =>
          (lastPage.tracked <=>
              (lastPage.path \notin UntrackedPaths /\ lastPage.dnt # "1"))

\* a client that had sent DNT: 1 asked again without it, and that request's
\* row is in the table
C13_Witness ==
    /\ lastPage # NoResult
    /\ lastPage.optedOut
    /\ lastPage.tracked
    /\ trackTasks = {}
    /\ \E r \in vis.rows :
          /\ r.by = ByRecord(lastPage.addr, salt, "first")
          /\ r.path = lastPage.path

\* C17: recording is detached and best-effort: the step that answers a tracked
\* request only starts the recorder and writes nothing, its response is the
\* one the route gives; the recorder's run, whether its insert succeeds or
\* fails, leaves the response and the serving process as they are, and a
\* failed insert leaves the table as it is.
C17_RecordingIsBestEffort ==
    [][/\ (trackTasks' # trackTasks /\ trackTasks \subseteq trackTasks') =>
            /\ vis' = vis
            /\ lastPage'.tracked
            /\ lastPage'.status = RouteStatus(lastPage'.path)
       /\ (trackTasks' # trackTasks /\ trackTasks' \subseteq trackTasks) =>
            /\ lpc' = lpc
            /\ lastPage' = lastPage
            /\ vis.rows \subseteq vis'.rows]_vars

\* a tracked request was answered, its recorder ran and wrote no row (both
\* inserts failed), and the process is serving
C17_Witness ==
    /\ lastPage # NoResult
    /\ lastPage.tracked
    /\ trackTasks = {}
    /\ lpc = "serving"
    /\ ~ \E r \in vis.rows : r.by[1] = "record" /\ r.by[3] = salt

\* C15: getAdminStats is all-or-nothing: a value it returns without an error
\* was built with no row read skipped, so its listing of recent visitors
\* holds every row the query returned.
C15_StatsAllOrNothing ==
    (lastStats # NoResult /\ lastStats.pc = "done" /\ ~lastStats.err) =>
        lastStats.skipped = 0

\* C20: the top-URLs listing has at most 10 entries, all of them stored
\* entries and none twice, ordered by clicks descending and, among equal
\* clicks, by createdAt descending; no stored entry left out has more clicks
\* than a listed one.
C20_TopUrlsOrdered ==
    (lastStats # NoResult /\ ~lastStats.err /\ lastStats.pc \in {"recent", "done"}) =>
        LET top    == lastStats.TopURLs
            stored == {c \in DOMAIN urls : urls[c] # NoRow}
            listed == {top[i].code : i \in 1 .. Len(top)}
        IN  /\ Len(top) = Min(TopLimit, Cardinality(stored))
            /\ Cardinality(listed) = Len(top)
            /\ \A i \in 1 .. Len(top) :
                  /\ top[i].code \in stored
                  /\ top[i].clicks = urls[top[i].code].clicks
                  /\ top[i].created_at = urls[top[i].code].created_at
            /\ \A i, j \in 1 .. Len(top) :
                  i < j => \/ top[i].clicks > top[j].clicks
                           \/ /\ top[i].clicks = top[j].clicks
                              /\ top[i].created_at >= top[j].created_at
            /\ \A c \in stored \ listed : \A i \in 1 .. Len(top) :
                  urls[c].clicks <= top[i].clicks

\* eleven entries are stored, ten are listed, and the listing holds two
\* entries with equal clicks and different creation times
C20_Witness ==
    /\ lastStats # NoResult /\ lastStats.pc = "done" /\ ~lastStats.err
    /\ Cardinality({c \in DOMAIN urls : urls[c] # NoRow}) > TopLimit
    /\ Len(lastStats.TopURLs) = TopLimit
    /\ \E i, j \in 1 .. Len(lastStats.TopURLs) :
          /\ i < j
          /\ lastStats.TopURLs[i].clicks = lastStats.TopURLs[j].clicks
          /\ lastStats.TopURLs[i].created_at > lastStats.TopURLs[j].created_at

\* C16: the redirect outcome does not depend on the side effects: a miss is
\* answered 404 with no URL and starts no increment; a hit is answered 302
\* with the stored URL in the step that only starts the increment; no lookup
\* changes a row, and no run of an increment, successful or failed, changes
\* the answer given or a stored URL.
C16_RedirectIgnoresSideEffects ==
    /\ [](lastLookup # NoResult =>
            IF lastLookup.found
            THEN lastLookup.status = 302 /\ lastLookup.url = lastLookup.saved
            ELSE lastLookup.status = 404 /\ lastLookup.url = "")
    /\ [][/\ (lastLookup' # lastLookup \/ hits' # hits) =>
               /\ urls' = urls
               /\ incTasks' = IF lastLookup'.found
                              THEN [incTasks EXCEPT ![lastLookup'.code] = @ + 1]
                              ELSE incTasks
          /\ (\E c \in Codes : incTasks'[c] < incTasks[c]) =>
               /\ lastLookup' = lastLookup
               /\ \A c \in Codes :
                     /\ Exists(c) <=> urls'[c] # NoRow
                     /\ Exists(c) => urls'[c].original_url = urls[c].original_url]_vars

\* a hit was answered while its increment was still pending, after an
\* earlier increment for the same code had failed (nothing was ever deleted)
C16_Witness ==
    /\ lastLookup # NoResult
    /\ lastLookup.found
    /\ incTasks[lastLookup.code] > 0
    /\ lastDelete = NoResult
    /\ dropped[lastLookup.code] > 0

\* C18: a delete of a code that is not stored affects 0 rows, is answered 404
\* and changes no entry; a delete of a stored code affects 1 row, is answered
\* 200 and removes that entry only; no entry disappears in any other way, and
\* a lookup of a code with no save since its delete finds nothing.
C18_DeleteExactlyOne ==
    /\ [](lastDelete # NoResult =>
            IF lastDelete.stored
            THEN lastDelete.rows = 1 /\ lastDelete.status = 200
            ELSE lastDelete.rows = 0 /\ lastDelete.status = 404)
    /\ [](lastLookup # NoResult /\ lastLookup.saved = None =>
            ~lastLookup.found /\ lastLookup.status = 404)
    /\ [][/\ lastDelete' # lastDelete =>
               \A c \in Codes :
                  urls'[c] = IF c = lastDelete'.code THEN NoRow ELSE urls[c]
          /\ \A c \in Codes :
               (Exists(c) /\ urls'[c] = NoRow) =>
                  /\ lastDelete' # NoResult
                  /\ lastDelete'.code = c /\ lastDelete'.status = 200
                  /\ \A d \in Codes \ {c} : urls'[d] = urls[d]]_vars

\* a stored code was deleted while another entry stayed, and a lookup of the
\* deleted code was answered 404
C18_Witness ==
    /\ lastDelete # NoResult /\ lastDelete.stored /\ lastDelete.status = 200
    /\ ~Exists(lastDelete.code)
    /\ \E c \in Codes : Exists(c)
    /\ lastLookup # NoResult
    /\ lastLookup.code = lastDelete.code
    /\ lastLookup.status = 404
    /\ hits[lastDelete.code] > 0

\* C19: a submitted URL that is empty or whose scheme is not http or https is
\* rejected before a short code is generated and leaves the Link Store as it
\* was; every stored originalURL has scheme http or https.
C19_OnlyHttpUrlsStored ==
    /\ [](\A c \in Codes :
            Exists(c) => Scheme(urls[c].original_url) \in {"http", "https"})
    /\ []((/\ lastShorten # NoResult
            /\ \/ lastShorten.url = ""
               \/ Scheme(lastShorten.url) \notin {"http", "https"}) =>
                /\ lastShorten.status \in {"empty", "invalid"}
                /\ lastShorten.code = None
                /\ lastShorten.attempts = 0)
    /\ [][(lastShorten' # NoResult /\ lastShorten' # lastShorten
             /\ lastShorten'.status \in {"empty", "invalid"}) =>
            urls' = urls /\ submitted' = submitted]_vars

\* an ftp URL was rejected while the store holds an entry
C19_Witness ==
    /\ lastShorten # NoResult
    /\ lastShorten.url = "ftp://c"
    /\ lastShorten.status = "invalid"
    /\ \E c \in Codes : Exists(c) /\ urls[c].original_url = "https://b"

----------------------------------------------------------------------------
(* The visitor listings of the dashboard and of GET /admin/visitors, as the *)
(* days pass and visits are recorded                                         *)

\* the visitors tables of a serving process that hold a row recorded on day
\* 0: the hashed table, and the table with both address columns that
\* version B leaves behind, its row carrying the placeholder
RecentTables ==
    { [CreateNewVisitorTable EXCEPT
          !.rows = {VRow(1, NULLV, <<"sha", "10.0.0.1", "s0">>,
                         ByRecord("10.0.0.1", "s0", "first"))},
          !.seq = 1],
      [LegacyTable(FillPlaceholders(LegacyRows(1, [i \in 1 .. MaxRows |-> "10.0.0.1"])))
          EXCEPT !.cols = {"ip", "hashed_ip"}] }

InitRecent ==
    /\ proc = "serving"
    /\ urlsTable = TRUE
    /\ clicksCol = TRUE
    /\ urls = [c \in Codes |-> IF c = "abc123" THEN NewRow(c, "http://a", 0) ELSE NoRow]
    /\ clock = 0
    /\ incTasks = [c \in Codes |-> 0]
    /\ lastLookup = NoResult
    /\ lastShorten = NoResult
    /\ submitted = [c \in Codes |-> IF urls[c] = NoRow THEN None
                                     ELSE urls[c].original_url]
    /\ hits = [c \in Codes |-> 0]
    /\ dropped = [c \in Codes |-> 0]
    /\ MemInit
    /\ build \in {"A", "B"}
    /\ lpc = "serving"
    /\ vis \in RecentTables
    /\ old = NoTable
    /\ salt = "s1"
    /\ trackTasks = {}
    /\ startKind = SchemaKind(vis)
    /\ startRows = vis.rows
    /\ twin = {}
    /\ AdminIdle
    /\ SiteServing

NextRecent ==
    \/ Tick
    \/ \E a \in OneClient : TrackRequest(a)
    \/ \E t \in trackTasks : TrackVisitorPrivacy(t)
    \/ GetAdminStatsBegin
    \/ Stats_TotalVisitors
    \/ Stats_UniqueVisitors
    \/ Stats_TotalURLs
    \/ Stats_TotalClicks
    \/ Stats_VisitorsToday
    \/ Stats_VisitorsThisWeek
    \/ Stats_TopURLs
    \/ Stats_RecentVisitors
    \/ AdminRequest(VisitorsRoute, adminToken, None)

SpecRecent == InitRecent /\ [][NextRecent]_vars

----------------------------------------------------------------------------
(* The process from its start on a storage layer whose statements can fail *)

\* positions of initVisitorTracking and initAdminToken
StartupPcs ==
    {"A_check", "A_rename", "A_create", "A_copy", "A_drop", "B_create",
     "B_alter", "B_migrate", "R_rename", "R_create", "R_copy", "R_drop", "ready"}

\* initDB has run: the links table is there and holds an entry; the visitors
\* table is missing or is the one of the first version of the admin module
InitBoot ==
    /\ proc = "serving"
    /\ urls = [c \in Codes |-> IF c = "abc123" THEN NewRow(c, "http://a", 0) ELSE NoRow]
    /\ urlsTable = TRUE
    /\ clicksCol = TRUE
    /\ clock = 0
    /\ incTasks = [c \in Codes |-> 0]
    /\ lastLookup = NoResult
    /\ lastShorten = NoResult
    /\ submitted = [c \in Codes |-> IF urls[c] = NoRow THEN None
                                     ELSE urls[c].original_url]
    /\ hits = [c \in Codes |-> 0]
    /\ dropped = [c \in Codes |-> 0]
    /\ MemInit
    /\ build \in {"A", "B"}
    /\ lpc = "down"
    /\ vis \in {NoTable, LegacyTable(LegacyRows(1, [i \in 1 .. MaxRows |-> "10.0.0.1"]))}
    /\ old = NoTable
    /\ salt = None
    /\ trackTasks = {}
    /\ startKind = None
    /\ startRows = {}
    /\ twin = {}
    /\ AdminIdle
    /\ SiteIdle

\* what the logged-in admin asks for: the dashboard and the cleanup
BootRequests == {q \in AdminRequests : q[1] \in {DashboardRoute, CleanupRoute}}

NextBoot ==
    \/ StartProcess
    \/ A_CheckTable
    \/ A_Rename
    \/ A_Create
    \/ A_Copy
    \/ A_Drop
    \/ B_Create
    \/ B_Alter
    \/ B_MigrateExisting
    \/ A_RenameFails
    \/ A_CreateFatal
    \/ A_CopyFails
    \/ A_DropFails
    \/ B_CreateFatal
    \/ B_AlterFails
    \/ R_Rename
    \/ R_RenameFails
    \/ R_Create
    \/ R_CreateFails
    \/ R_Copy
    \/ R_CopyFails
    \/ R_Drop
    \/ R_DropFails
    \/ InitAdminToken
    \/ \E a \in OneClient : TrackRequest(a)
    \/ \E t \in trackTasks : TrackVisitorPrivacy(t)
    \/ lpc = "serving" /\ Lookup("abc123")
    \/ lpc = "serving" /\ IncrementClicks("abc123")
    \/ lpc = "serving" /\ IncrementClicksFails("abc123")
    \/ CleanupOldVisitorData
    \/ \E q \in BootRequests : AdminRequest(q[1], adminToken, q[2])

SpecBoot == InitBoot /\ [][NextBoot]_vars

----------------------------------------------------------------------------
(* generateShortCode (main.go:634-649); a string is a sequence of characters *)

\* make([]byte, 6)
RandLen == 6
\* shortCode[:8]
CodeLen == 8

\* values a byte of rand.Read takes here
ByteSamples == {0, 251, 255}

\* (variant: the alphabet of base64.StdEncoding)
AlphabetStd ==
    << "A", "B", "C", "D", "E", "F", "G", "H", "I", "J", "K", "L", "M",
       "N", "O", "P", "Q", "R", "S", "T", "U", "V", "W", "X", "Y", "Z",
       "a", "b", "c", "d", "e", "f", "g", "h", "i", "j", "k", "l", "m",
       "n", "o", "p", "q", "r", "s", "t", "u", "v", "w", "x", "y", "z",
       "0", "1", "2", "3", "4", "5", "6", "7", "8", "9", "+", "/" >>
\* the alphabet of base64.URLEncoding, by sextet value + 1
Alphabet ==
    << "A", "B", "C", "D", "E", "F", "G", "H", "I", "J", "K", "L", "M",
       "N", "O", "P", "Q", "R", "S", "T", "U", "V", "W", "X", "Y", "Z",
       "a", "b", "c", "d", "e", "f", "g", "h", "i", "j", "k", "l", "m",
       "n", "o", "p", "q", "r", "s", "t", "u", "v", "w", "x", "y", "z",
       "0", "1", "2", "3", "4", "5", "6", "7", "8", "9", "-", "_" >>

Sextet(n) == Alphabet[n + 1]

\* base64.URLEncoding.EncodeToString: three bytes give four characters, a
\* rest of one or two bytes is padded with '='
RECURSIVE EncodeToString(_)
EncodeToString(bs) ==
    IF Len(bs) = 0 THEN <<>>
    ELSE IF Len(bs) = 1
    THEN << Sextet(bs[1] \div 4), Sextet((bs[1] % 4) * 16), "=", "=" >>
    ELSE IF Len(bs) = 2
    THEN << Sextet(bs[1] \div 4),
            Sextet((bs[1] % 4) * 16 + bs[2] \div 16),
            Sextet((bs[2] % 16) * 4), "=" >>
    ELSE << Sextet(bs[1] \div 4),
            Sextet((bs[1] % 4) * 16 + bs[2] \div 16),
            Sextet((bs[2] % 16) * 4 + bs[3] \div 64),
            Sextet(bs[3] % 64) >>
         \o EncodeToString(SubSeq(bs, 4, Len(bs)))

\* strings.TrimRight(s, "=")
RECURSIVE TrimRight(_, _)
TrimRight(str, ch) ==
    IF str # <<>> /\ str[Len(str)] = ch
    THEN TrimRight(SubSeq(str, 1, Len(str) - 1), ch)
    ELSE str

\* if len(shortCode) > 8 { shortCode = shortCode[:8] }
Truncate(str) == IF Len(str) > CodeLen THEN SubSeq(str, 1, CodeLen) ELSE str

\* the code generateShortCode returns for the bytes rand.Read has filled in
ShortCodeOf(bs) == Truncate(TrimRight(EncodeToString(bs), "="))

\* generateShortCode when rand.Read fills the buffer with bs
GenerateShortCode(bs) ==
    /\ lastGen' = [bytes |-> bs, readErr |-> FALSE, code |-> ShortCodeOf(bs),
                   err |-> FALSE]
    /\ UNCHANGED <<adminToken, jar, issued, lastAdmin>>
    /\ UNCHANGED <<linkVars, memVars, ledgerVars, adminVars>>

\* generateShortCode when rand.Read returns an error: return "", err
GenerateShortCodeFails ==
    /\ lastGen' = [bytes |-> [i \in 1 .. RandLen |-> 0], readErr |-> TRUE,
                   code |-> <<>>, err |-> TRUE]
    /\ UNCHANGED <<adminToken, jar, issued, lastAdmin>>
    /\ UNCHANGED <<linkVars, memVars, ledgerVars, adminVars>>

InitGen ==
    /\ LinkIdle
    /\ MemInit
    /\ LedgerIdle
    /\ AdminIdle
    /\ SiteIdle

NextGen ==
    \/ \E bs \in [1 .. RandLen -> ByteSamples] : GenerateShortCode(bs)
    \/ GenerateShortCodeFails

SpecGen == InitGen /\ [][NextGen]_vars

----------------------------------------------------------------------------
(* The admin gate: logins, logouts, requests to the protected group with    *)
(* any cookie, and restarts of the process                                   *)

InitGate ==
    /\ proc = "serving"
    /\ urlsTable = TRUE
    /\ clicksCol = TRUE
    /\ urls = [c \in Codes |-> IF c = "abc123" THEN NewRow(c, "http://a", 0) ELSE NoRow]
    /\ clock = 0
    /\ incTasks = [c \in Codes |-> 0]
    /\ lastLookup = NoResult
    /\ lastShorten = NoResult
    /\ submitted = [c \in Codes |-> IF urls[c] = NoRow THEN None
                                     ELSE urls[c].original_url]
    /\ hits = [c \in Codes |-> 0]
    /\ dropped = [c \in Codes |-> 0]
    /\ MemInit
    /\ build = "A"
    /\ lpc = "serving"
    /\ vis = CreateNewVisitorTable
    /\ old = NoTable
    /\ salt = "s1"
    /\ trackTasks = {}
    /\ startKind = SchemaKind(vis)
    /\ startRows = vis.rows
    /\ twin = {}
    /\ AdminIdle
    /\ SiteServing

NextGate ==
    \/ \E b \in Browsers, cred \in Credentials : Login(b, cred)
    \/ \E b \in Browsers : Logout(b)
    \/ \E q \in AdminRequests, cookie \in CookieValues :
          AdminRequest(q[1], cookie, q[2])
    \/ CleanupOldVisitorData
    \/ StopProcess
    \/ StartProcess
    \/ A_CheckTable
    \/ InitAdminToken

SpecGate == InitGate /\ [][NextGate]_vars

----------------------------------------------------------------------------
(* Properties of the whole site *)

\* C21: clicks is changed only by redirect events: an entry that appears has
\* clicks 0; the only step that changes the clicks of a stored entry is a run
\* of an increment for its code, which adds 1, keeps the entry's URL and
\* createdAt and leaves every other entry as it was; a save, a delete of
\* another code, a lookup that misses, a visitor recording, a pruning and a
\* stats read leave every stored entry's clicks unchanged.
C21_ClicksOnlyByRedirect ==
    [][/\ \A c \in Codes :
            /\ (~Exists(c) /\ urls'[c] # NoRow) => urls'[c].clicks = 0
            /\ (Exists(c) /\ urls'[c] # NoRow /\ urls'[c].clicks # urls[c].clicks) =>
                  /\ incTasks'[c] = incTasks[c] - 1
                  /\ urls'[c].clicks = urls[c].clicks + 1
            /\ (incTasks'[c] < incTasks[c]) =>
                  /\ \A d \in Codes \ {c} : urls'[d] = urls[d]
                  /\ Exists(c) =>
                        /\ urls'[c] # NoRow
                        /\ urls'[c].original_url = urls[c].original_url
                        /\ urls'[c].created_at = urls[c].created_at
       /\ (\/ lastShorten' # lastShorten
           \/ lastLookup' # lastLookup /\ ~lastLookup'.found
           \/ vis' # vis
           \/ trackTasks' # trackTasks
           \/ cleanTasks' # cleanTasks
           \/ lastAdmin' # lastAdmin /\ lastAdmin'.route \in StatsRoutes) =>
             \A c \in Codes :
                (Exists(c) /\ urls'[c] # NoRow) => urls'[c].clicks = urls[c].clicks
       /\ \A c \in Codes :
             (Exists(c) /\ urls'[c] = NoRow) =>
                \A d \in Codes \ {c} : urls'[d] = urls[d]]_vars

\* abc123 has been clicked and has kept its clicks through the save and the
\* delete of zzz999, a lookup that missed, a recorded visit, the pruning and
\* a dashboard read
C21_Witness ==
    /\ Exists("abc123") /\ urls["abc123"].clicks > 0
    /\ lastShorten # NoResult /\ lastShorten.status = "ok"
    /\ lastShorten.code = "zzz999" /\ ~Exists("zzz999")
    /\ lastLookup # NoResult /\ lastLookup.code = "zzz999" /\ ~lastLookup.found
    /\ \E r \in vis.rows : r.by[1] = "record"
    /\ cleanTasks = 0
    /\ lastAdmin # NoResult /\ lastAdmin.route = DashboardRoute /\ lastAdmin.status = 200

\* C22: the Admin Aggregator only reads: every step of getAdminStats, the
\* one that returns the stats and the one that returns an error included,
\* leaves table urls and tables visitors and visitors_old exactly as they were.
C22_StatsOnlyReads ==
    [][lastStats' # lastStats =>
          /\ urls' = urls
          /\ urlsTable' = urlsTable
          /\ clicksCol' = clicksCol
          /\ vis' = vis
          /\ old' = old]_vars

\* getAdminStats has returned its stats on a visitors table that holds a row
\* and a links table that holds an entry with clicks
C22_Witness ==
    /\ lastStats # NoResult /\ lastStats.pc = "done" /\ ~lastStats.err
    /\ lastStats.TotalVisitors > 0
    /\ vis.rows # {}
    /\ \E c \in DOMAIN urls : urls[c] # NoRow /\ urls[c].clicks > 0

\* the characters A-Z, a-z, 0-9, '-' and '_'
URLSafeChars ==
    { "A", "B", "C", "D", "E", "F", "G", "H", "I", "J", "K", "L", "M", "N", "O",
      "P", "Q", "R", "S", "T", "U", "V", "W", "X", "Y", "Z", "a", "b", "c", "d",
      "e", "f", "g", "h", "i", "j", "k", "l", "m", "n", "o", "p", "q", "r", "s",
      "t", "u", "v", "w", "x", "y", "z", "0", "1", "2", "3", "4", "5", "6", "7",
      "8", "9", "-", "_" }

\* the sextet a character of the URL-safe alphabet stands for (RFC 4648,
\* table 2): A-Z are 0-25, a-z 26-51, 0-9 52-61, '-' 62, '_' 63
SextetOf(ch) == (CHOOSE i \in 1 .. 64 : Alphabet[i] = ch) - 1

\* the 24 bits four characters spell, and the 24 bits three bytes hold
BitsOfChars(str, i) ==
    SextetOf(str[i]) * 262144 + SextetOf(str[i + 1]) * 4096
        + SextetOf(str[i + 2]) * 64 + SextetOf(str[i + 3])
BitsOfBytes(bs, i) == bs[i] * 65536 + bs[i + 1] * 256 + bs[i + 2]

\* C23: every short code generateShortCode returns has between 6 and 8
\* characters, all of them URL-safe base64 characters and none the padding
\* character, and spells, sextet by sextet, the 48 bits of the 6 bytes
\* drawn; generateShortCode returns an error exactly when rand.Read did,
\* and then returns the empty string.
C23_ShortCodeFormat ==
    lastGen # NoResult =>
        /\ lastGen.err = lastGen.readErr
        /\ lastGen.err => lastGen.code = <<>>
        /\ ~lastGen.err =>
              /\ Len(lastGen.bytes) = 6
              /\ Len(lastGen.code) >= 6 /\ Len(lastGen.code) <= 8
              /\ \A i \in 1 .. Len(lastGen.code) :
                    lastGen.code[i] \in URLSafeChars /\ lastGen.code[i] # "="
              /\ Len(lastGen.code) = 8
              /\ BitsOfChars(lastGen.code, 1) = BitsOfBytes(lastGen.bytes, 1)
              /\ BitsOfChars(lastGen.code, 5) = BitsOfBytes(lastGen.bytes, 4)

\* a code with '-' or '_' in it came out of bytes that are not all equal
C23_Witness ==
    /\ lastGen # NoResult /\ ~lastGen.err
    /\ \E i \in 1 .. Len(lastGen.code) : lastGen.code[i] \in {"-", "_"}
    /\ \E i \in 1 .. Len(lastGen.code) : lastGen.code[i] \notin {"-", "_", "A"}
    /\ lastGen.bytes[1] # lastGen.bytes[2]

\* C24: once startup has completed, no step ends the serving process, the
\* steps in which a visitor insert, a click update, a prune or a stats query
\* fails included: the process leaves only a position of its startup, and a
\* stats request whose query fails is answered 500.
C24_NoFatalAfterStartup ==
    [][/\ lpc = "serving" => (lpc' = "serving" /\ proc' = "serving")
       /\ (lpc # "down" /\ lpc' = "down") => lpc \in StartupPcs
       /\ (lastAdmin' # lastAdmin /\ lastAdmin'.route \in StatsRoutes
             /\ GetAdminStatsErr) =>
             (lastAdmin'.status = 500 /\ lastAdmin'.ran)]_vars

\* the process serves without a visitors table after a recording whose
\* inserts failed, a click update that failed, a prune that ran and a
\* dashboard request answered 500
C24_Witness ==
    /\ lpc = "serving"
    /\ ~vis.exists
    /\ lastPage # NoResult /\ lastPage.tracked /\ trackTasks = {}
    /\ hits["abc123"] > 0 /\ dropped["abc123"] > 0 /\ incTasks["abc123"] = 0
    /\ cleanTasks = 0
    /\ lastAdmin # NoResult /\ lastAdmin.route = DashboardRoute /\ lastAdmin.status = 500

\* C25: in the in-memory variant every access to the map is made under the
\* store's lock: the request about to write holds the write lock with no
\* reader inside, the request about to read holds the read lock with no
\* writer inside, so no access is concurrent with a write; the map changes
\* only in the step of the request holding the write lock, and what a lookup
\* has read is nothing or a URL that a request stored.
C25_MapAccessUnderLock ==
    /\ [](\A r \in Reqs :
            /\ memReq[r].pc = "store" => (mu.writer = r /\ mu.readers = {})
            /\ memReq[r].pc = "read" => (r \in mu.readers /\ mu.writer = None)
            /\ memReq[r].pc = "store" =>
                  \A q \in Reqs \ {r} : memReq[q].pc \notin {"store", "read"}
            /\ memReq[r].pc = "runlock" =>
                  IF memReq[r].found THEN memReq[r].url \in ValidURLs
                  ELSE memReq[r].url = "")
    /\ [][memUrls' # memUrls =>
            \E r \in Reqs :
               /\ memReq[r].pc = "store" /\ mu.writer = r /\ mu.readers = {}
               /\ memUrls' = MemPut(memUrls, memReq[r].code, memReq[r].url)]_vars

\* a shorten request is about to write abc123 under the write lock while a
\* redirect request for abc123 waits for the read lock
C25_Witness ==
    /\ memReq["r1"].pc = "store" /\ memReq["r1"].code = "abc123"
    /\ mu.writer = "r1"
    /\ memReq["r2"].pc = "rlock" /\ memReq["r2"].code = "abc123"
    /\ memUrls["abc123"] # None /\ memUrls["abc123"] # memReq["r1"].url

\* the row of the visitors table with the given id
RowOf(id) == CHOOSE r \in vis.rows : r.id = id

\* a listing of row ids is in timestamp order, newest first, has at most
\* limit entries, and no row of the table it leaves out is more recent than
\* a row it holds
NewestFirst(ids, limit) ==
    /\ Len(ids) <= limit
    /\ \A i \in 1 .. Len(ids) : \E r \in vis.rows : r.id = ids[i]
    /\ \A i, j \in 1 .. Len(ids) :
          i < j => RowOf(ids[i]).timestamp >= RowOf(ids[j]).timestamp
    /\ \A r \in vis.rows :
          (\A i \in 1 .. Len(ids) : ids[i] # r.id) =>
             \A i \in 1 .. Len(ids) : r.timestamp <= RowOf(ids[i]).timestamp

\* C26 (as claimed): the recent visitors of the dashboard aggregation and the
\* full visitor listing are ordered by timestamp descending, hold at most 50
\* and at most 200 records, and leave out no record that is more recent than
\* a record they return.
C26_RecentVisitorsNewestFirst ==
    [][/\ (lastStats' # lastStats /\ lastStats'.pc = "done" /\ ~lastStats'.err) =>
             NewestFirst(lastStats'.RecentVisitors, RecentLimit)
       /\ (lastAdmin' # lastAdmin /\ lastAdmin'.route = VisitorsRoute
             /\ lastAdmin'.status = 200) =>
             NewestFirst(lastAdmin'.body, ListLimit)]_vars

\* C27: a handler of the protected admin group runs only for a request whose
\* admin_token cookie equals the current admin token; a request with no
\* cookie or another value is answered 302 to /admin/login and nothing of
\* the handler happens: no URL is deleted, no cleanup is started, no
\* listing is produced.
C27_AdminGate ==
    [][(lastAdmin' # lastAdmin /\ lastAdmin'.route \in AdminGroup) =>
          IF lastAdmin'.cookie # NoCookie /\ lastAdmin'.cookie = adminToken
          THEN lastAdmin'.ran /\ lastAdmin'.status \in {200, 404, 500}
          ELSE /\ ~lastAdmin'.ran
               /\ lastAdmin'.status = 302
               /\ lastAdmin'.location = "/admin/login"
               /\ lastAdmin'.body = <<>>
               /\ urls' = urls
               /\ lastDelete' = lastDelete
               /\ cleanTasks' = cleanTasks]_vars

\* C27 witness: a delete request that presents a token other than the
\* current one was turned away and the entry is still stored.
C27_Witness ==
    /\ lastAdmin # NoResult
    /\ lastAdmin.route = DeleteRoute
    /\ lastAdmin.code = "abc123"
    /\ lastAdmin.cookie = "t2"
    /\ adminToken = "t1"
    /\ lastAdmin.status = 302
    /\ urls["abc123"] # NoRow

\* C28: the admin token is assigned at startup only and no login or logout
\* changes it; a logout clears at most the caller's cookie; so a request
\* presenting a token value that a successful login of this process handed
\* out passes the gate, whatever logins and logouts came in between.
C28_TokenFixedWhileRunning ==
    /\ [](lpc = "serving" => issued \subseteq {adminToken})
    /\ [][/\ adminToken' # adminToken => (lpc = "ready" /\ lpc' = "serving")
          /\ (lastAdmin' # lastAdmin /\ lastAdmin'.route = "GET /admin/logout") =>
                /\ adminToken' = adminToken
                /\ issued' = issued
                /\ Cardinality({b \in Browsers : jar'[b] # jar[b]}) <= 1
                /\ \A b \in Browsers : jar'[b] \in {jar[b], NoCookie}
          /\ (lastAdmin' # lastAdmin /\ lastAdmin'.route \in AdminGroup
                /\ lastAdmin'.cookie \in issued) =>
                lastAdmin'.ran]_vars

\* C28 witness: after a login and the logouts that cleared every browser's
\* cookie, a request presenting the token that login handed out ran.
C28_Witness ==
    /\ lpc = "serving"
    /\ issued # {}
    /\ \A b \in Browsers : jar[b] = NoCookie
    /\ lastAdmin # NoResult
    /\ lastAdmin.route \in AdminGroup
    /\ lastAdmin.cookie \in issued
    /\ lastAdmin.ran

\* C29 (as claimed): when a lookup of c succeeded and c was deleted before
\* the increment of that lookup ran (the only lookup of c that ever hit still
\* has its increment pending, and the entry it found is gone or replaced),
\* the increment changes no row and c is not stored afterwards.
C29_StaleIncrementNoOp ==
    [][\A c \in Codes :
          (/\ incTasks'[c] < incTasks[c]
           /\ hits[c] = 1
           /\ lastLookup # NoResult
           /\ lastLookup.code = c
           /\ lastLookup.found
           /\ (urls[c] = NoRow \/ urls[c].original_url # lastLookup.url))
          => (urls' = urls /\ urls'[c] = NoRow)]_vars

\* C29 (amended): an increment that runs while no entry is stored under its
\* code changes no row and creates none, and a lookup of a code that is not
\* stored answers not-found and starts no increment.
C29_IncrementOfAbsentCodeNoOp ==
    [][\A c \in Codes :
          /\ (incTasks'[c] < incTasks[c] /\ urls[c] = NoRow) => urls' = urls
          /\ (lastLookup' # lastLookup /\ lastLookup'.code = c /\ urls[c] = NoRow) =>
                /\ ~lastLookup'.found
                /\ lastLookup'.status = 404
                /\ incTasks' = incTasks]_vars

\* C29 witness: the entry was deleted while the increment of the only lookup
\* that hit it was still pending; the increment has run since, the code is
\* not stored and a later lookup of it answered not-found.
C29_Witness ==
    /\ lastDelete # NoResult
    /\ lastDelete.rows = 1
    /\ lastDelete.inflight = 1
    /\ hits[lastDelete.code] = 1
    /\ incTasks[lastDelete.code] = 0
    /\ urls[lastDelete.code] = NoRow
    /\ lastLookup # NoResult
    /\ lastLookup.code = lastDelete.code
    /\ ~lastLookup.found

\* the clicks of a listing of top URLs, added up
RECURSIVE SumClicks(_)
SumClicks(top) ==
    IF top = <<>> THEN 0 ELSE Head(top).clicks + SumClicks(Tail(top))

\* C30 (as claimed): every AdminStats value getAdminStats returns is
\* consistent in itself, also when visitors are recorded between its
\* queries: the unique, today's and this week's visitors are each at most
\* the total visitors, and the clicks of the top URLs add up to at most the
\* total clicks.
C30_StatsConsistent ==
    (lastStats # NoResult /\ lastStats.pc = "done" /\ ~lastStats.err) =>
        /\ lastStats.UniqueVisitors <= lastStats.TotalVisitors
        /\ lastStats.VisitorsToday <= lastStats.TotalVisitors
        /\ lastStats.VisitorsThisWeek <= lastStats.TotalVisitors
        /\ SumClicks(lastStats.TopURLs) <= lastStats.TotalClicks

====
